---- MODULE Spec2Model ----
(***************************************************************************)
(* The NDB scrapers of mysqld_exporter (package collector): every scraper  *)
(* is a query, a set of metric descriptors and a Scrape method that runs   *)
(* the query, iterates over the rows and sends one or more metrics per row *)
(* over the channel ch.  The model keeps the code of every scraper as a    *)
(* record (its select list, its Scan destinations, the metrics it builds)  *)
(* and runs the shared control flow of Scrape over it, against a database  *)
(* handle (database/sql) and a channel whose behaviour is the library's.   *)
(***************************************************************************)
EXTENDS Integers, Sequences, FiniteSets, TLC

\* ---------------------------------------------------------------- bounds
\* The largest result set a query returns.
MaxRows == 2
\* The largest result set a query returns when several invocations run at a time.
MaxCycleRows == 1
\* The most queries one invocation of Scrape is let to issue.
MaxQueries == 2

\* ---------------------------------------------------------------- values
\* A literal Go string, a literal number, a well-formed value of column c in
\* row r, a value that is not a number (text in a numeric column) and SQL NULL.
StrVal(s) == [k |-> "str", row |-> 0, s |-> s]
NumVal(s) == [k |-> "num", row |-> 0, s |-> s]
Cell(r, c) == [k |-> "cell", row |-> r, s |-> c]
Text(r, c) == [k |-> "text", row |-> r, s |-> c]
Null(r, c) == [k |-> "null", row |-> r, s |-> c]

\* ------------------------------------------------------------- scrapers
ScrapeNDBConnectionMap ==
  [name |-> <<"", "info_schema.ndb_transid_mysql_connection_map">>,
   version |-> 51,
   columns |-> <<
      [name |-> "mysql_connection_id", nullable |-> TRUE, dflt |-> <<>>],
      [name |-> "node_id", nullable |-> TRUE, dflt |-> <<>>],
      [name |-> "ndb_transid", nullable |-> TRUE, dflt |-> <<>>]>>,
   dests |-> <<"mysqlConnectionID", "nodeID", "ndbTransID">>,
   types |-> <<"string", "string", "string">>,
   dynamic |-> FALSE,
   errSends |-> <<>>,
   rowSends |-> <<
       [desc |-> [fq |-> <<"namespace", "informationSchema", <<"ndb_transid_mysql_connection_map">>>>, help |-> <<"NDB connections by mysql_connection_id/node_id/ndb_transid. Returns 1 if query is successful.">>, labels |-> <<"mysql_connection_id", "node_id", "ndb_transid">>],
        vtype |-> "GaugeValue", value |-> [k |-> "const", x |-> "1"],
        labels |-> <<[k |-> "var", x |-> "mysqlConnectionID"], [k |-> "var", x |-> "nodeID"], [k |-> "var", x |-> "ndbTransID"]>>]>>]

ScrapeNDBInfoCPUStat ==
  [name |-> <<"NDBInfo", ".cpustat">>,
   version |-> 80,
   columns |-> <<
      [name |-> "node_id", nullable |-> TRUE, dflt |-> <<>>],
      [name |-> "thr_no", nullable |-> TRUE, dflt |-> <<>>],
      [name |-> "OS_user", nullable |-> TRUE, dflt |-> <<>>],
      [name |-> "OS_system", nullable |-> TRUE, dflt |-> <<>>],
      [name |-> "OS_idle", nullable |-> TRUE, dflt |-> <<>>],
      [name |-> "thread_exec", nullable |-> TRUE, dflt |-> <<>>],
      [name |-> "thread_sleeping", nullable |-> TRUE, dflt |-> <<>>],
      [name |-> "thread_spinning", nullable |-> TRUE, dflt |-> <<>>],
      [name |-> "thread_send", nullable |-> TRUE, dflt |-> <<>>],
      [name |-> "thread_buffer_full", nullable |-> TRUE, dflt |-> <<>>],
      [name |-> "elapsed_time", nullable |-> TRUE, dflt |-> <<>>]>>,
   dests |-> <<"nodeID", "thrNo", "OSUser", "OSSystem", "OSIdle", "threadExec", "threadSleeping", "threadSpinning", "threadSend", "threadBufferFull", "elapsedTime">>,
   types |-> <<"string", "string", "uint64", "uint64", "uint64", "uint64", "uint64", "uint64", "uint64", "uint64", "uint64">>,
   dynamic |-> FALSE,
   errSends |-> <<>>,
   rowSends |-> <<
       [desc |-> [fq |-> <<"namespace", "NDBInfo", <<"cpustat">>>>, help |-> <<"The percentage of last second spend in each mode by node_id/thr_no/mode.">>, labels |-> <<"node_id", "thr_no", "mode">>],
        vtype |-> "GaugeValue", value |-> [k |-> "var", x |-> "OSUser"],
        labels |-> <<[k |-> "var", x |-> "nodeID"], [k |-> "var", x |-> "thrNo"], [k |-> "lit", x |-> "os_user"]>>],
       [desc |-> [fq |-> <<"namespace", "NDBInfo", <<"cpustat">>>>, help |-> <<"The percentage of last second spend in each mode by node_id/thr_no/mode.">>, labels |-> <<"node_id", "thr_no", "mode">>],
        vtype |-> "GaugeValue", value |-> [k |-> "var", x |-> "OSSystem"],
        labels |-> <<[k |-> "var", x |-> "nodeID"], [k |-> "var", x |-> "thrNo"], [k |-> "lit", x |-> "os_system"]>>],
       [desc |-> [fq |-> <<"namespace", "NDBInfo", <<"cpustat">>>>, help |-> <<"The percentage of last second spend in each mode by node_id/thr_no/mode.">>, labels |-> <<"node_id", "thr_no", "mode">>],
        vtype |-> "GaugeValue", value |-> [k |-> "var", x |-> "OSIdle"],
        labels |-> <<[k |-> "var", x |-> "nodeID"], [k |-> "var", x |-> "thrNo"], [k |-> "lit", x |-> "os_idle"]>>],
       [desc |-> [fq |-> <<"namespace", "NDBInfo", <<"cpustat">>>>, help |-> <<"The percentage of last second spend in each mode by node_id/thr_no/mode.">>, labels |-> <<"node_id", "thr_no", "mode">>],
        vtype |-> "GaugeValue", value |-> [k |-> "var", x |-> "threadExec"],
        labels |-> <<[k |-> "var", x |-> "nodeID"], [k |-> "var", x |-> "thrNo"], [k |-> "lit", x |-> "thread_exec"]>>],
       [desc |-> [fq |-> <<"namespace", "NDBInfo", <<"cpustat">>>>, help |-> <<"The percentage of last second spend in each mode by node_id/thr_no/mode.">>, labels |-> <<"node_id", "thr_no", "mode">>],
        vtype |-> "GaugeValue", value |-> [k |-> "var", x |-> "threadSleeping"],
        labels |-> <<[k |-> "var", x |-> "nodeID"], [k |-> "var", x |-> "thrNo"], [k |-> "lit", x |-> "thread_sleeping"]>>],
       [desc |-> [fq |-> <<"namespace", "NDBInfo", <<"cpustat">>>>, help |-> <<"The percentage of last second spend in each mode by node_id/thr_no/mode.">>, labels |-> <<"node_id", "thr_no", "mode">>],
        vtype |-> "GaugeValue", value |-> [k |-> "var", x |-> "threadSpinning"],
        labels |-> <<[k |-> "var", x |-> "nodeID"], [k |-> "var", x |-> "thrNo"], [k |-> "lit", x |-> "thread_spinning"]>>],
       [desc |-> [fq |-> <<"namespace", "NDBInfo", <<"cpustat">>>>, help |-> <<"The percentage of last second spend in each mode by node_id/thr_no/mode.">>, labels |-> <<"node_id", "thr_no", "mode">>],
        vtype |-> "GaugeValue", value |-> [k |-> "var", x |-> "threadSend"],
        labels |-> <<[k |-> "var", x |-> "nodeID"], [k |-> "var", x |-> "thrNo"], [k |-> "lit", x |-> "thread_send"]>>],
       [desc |-> [fq |-> <<"namespace", "NDBInfo", <<"cpustat">>>>, help |-> <<"The percentage of last second spend in each mode by node_id/thr_no/mode.">>, labels |-> <<"node_id", "thr_no", "mode">>],
        vtype |-> "GaugeValue", value |-> [k |-> "var", x |-> "threadBufferFull"],
        labels |-> <<[k |-> "var", x |-> "nodeID"], [k |-> "var", x |-> "thrNo"], [k |-> "lit", x |-> "thread_buffer_full"]>>],
       [desc |-> [fq |-> <<"namespace", "NDBInfo", <<"cpustat_elapsed_time">>>>, help |-> <<"The total time over which the CPU statistics were collected by node_id/thr_no.">>, labels |-> <<"node_id", "thr_no">>],
        vtype |-> "GaugeValue", value |-> [k |-> "var", x |-> "elapsedTime"],
        labels |-> <<[k |-> "var", x |-> "nodeID"], [k |-> "var", x |-> "thrNo"]>>]>>]

ScrapeNDBInfoHWInfo ==
  [name |-> <<"NDBInfo", ".hwinfo">>,
   version |-> 80,
   columns |-> <<
      [name |-> "node_id", nullable |-> TRUE, dflt |-> <<>>],
      [name |-> "cpu_cnt_max", nullable |-> TRUE, dflt |-> <<>>],
      [name |-> "cpu_cnt", nullable |-> TRUE, dflt |-> <<>>],
      [name |-> "num_cpu_cores", nullable |-> TRUE, dflt |-> <<>>],
      [name |-> "num_cpu_sockets", nullable |-> TRUE, dflt |-> <<>>],
      [name |-> "HW_memory_size", nullable |-> TRUE, dflt |-> <<>>],
      [name |-> "model_name", nullable |-> TRUE, dflt |-> <<>>]>>,
   dests |-> <<"nodeID", "cpuCntMax", "cpuCnt", "numCPUCores", "numCPUSockets", "HWMemorySize", "modelName">>,
   types |-> <<"string", "uint64", "uint64", "uint64", "uint64", "uint64", "string">>,
   dynamic |-> FALSE,
   errSends |-> <<>>,
   rowSends |-> <<
       [desc |-> [fq |-> <<"namespace", "NDBInfo", <<"hwinfo_cpu_cnt_max">>>>, help |-> <<"The amount of processors on host by node_id/model_name.">>, labels |-> <<"node_id", "model_name">>],
        vtype |-> "GaugeValue", value |-> [k |-> "var", x |-> "cpuCntMax"],
        labels |-> <<[k |-> "var", x |-> "nodeID"], [k |-> "var", x |-> "modelName"]>>],
       [desc |-> [fq |-> <<"namespace", "NDBInfo", <<"hwinfo_cpu_cnt">>>>, help |-> <<"The amount of processors allocated by node_id/model_name.">>, labels |-> <<"node_id", "model_name">>],
        vtype |-> "GaugeValue", value |-> [k |-> "var", x |-> "cpuCnt"],
        labels |-> <<[k |-> "var", x |-> "nodeID"], [k |-> "var", x |-> "modelName"]>>],
       [desc |-> [fq |-> <<"namespace", "NDBInfo", <<"hwinfo_num_cpu_cores">>>>, help |-> <<"The amount of CPU cores on this host by node_id/model_name.">>, labels |-> <<"node_id", "model_name">>],
        vtype |-> "GaugeValue", value |-> [k |-> "var", x |-> "numCPUCores"],
        labels |-> <<[k |-> "var", x |-> "nodeID"], [k |-> "var", x |-> "modelName"]>>],
       [desc |-> [fq |-> <<"namespace", "NDBInfo", <<"hwinfo_num_cpu_sockets">>>>, help |-> <<"The amount of sockets on this host by node_id/model_name.">>, labels |-> <<"node_id", "model_name">>],
        vtype |-> "GaugeValue", value |-> [k |-> "var", x |-> "numCPUSockets"],
        labels |-> <<[k |-> "var", x |-> "nodeID"], [k |-> "var", x |-> "modelName"]>>],
       [desc |-> [fq |-> <<"namespace", "NDBInfo", <<"hwinfo_hw_memory_size">>>>, help |-> <<"The amount of memory available on this host by node_id/model_name.">>, labels |-> <<"node_id", "model_name">>],
        vtype |-> "GaugeValue", value |-> [k |-> "var", x |-> "HWMemorySize"],
        labels |-> <<[k |-> "var", x |-> "nodeID"], [k |-> "var", x |-> "modelName"]>>]>>]

ScrapeNDBInfoArbSumDet ==
  [name |-> <<"NDBInfo", ".arbitrator_validity_summary">>,
   version |-> 80,
   columns |-> <<
      [name |-> "arbitrator", nullable |-> TRUE, dflt |-> <<>>],
      [name |-> "arb_ticket", nullable |-> TRUE, dflt |-> <<>>],
      [name |-> "arb_connected", nullable |-> TRUE, dflt |-> <<>>],
      [name |-> "consensus_count", nullable |-> TRUE, dflt |-> <<>>]>>,
   dests |-> <<"arbitrator", "arbTicket", "connected", "consensusCount">>,
   types |-> <<"string", "string", "string", "uint64">>,
   dynamic |-> FALSE,
   errSends |-> <<>>,
   rowSends |-> <<
       [desc |-> [fq |-> <<"namespace", "NDBInfo", <<"arbitrator_validity_summary_consensus_count">>>>, help |-> <<"The number of data nodes that see this node as arbitrator by arbitrator/arb_ticket/arb_connected">>, labels |-> <<"arbitrator", "arb_ticket", "arb_connected">>],
        vtype |-> "GaugeValue", value |-> [k |-> "var", x |-> "consensusCount"],
        labels |-> <<[k |-> "var", x |-> "arbitrator"], [k |-> "var", x |-> "arbTicket"], [k |-> "var", x |-> "connected"]>>]>>]

\* ScrapeNDBInfoBackupID with the name of ScrapeNDBInfoNodes.
ScrapeNDBInfoBackupIDNamedNodes ==
  [name |-> <<"NDBInfo", ".nodes">>,
   version |-> 80,
   columns |-> <<[name |-> "id", nullable |-> TRUE, dflt |-> <<>>]>>,
   dests |-> <<"id">>,
   types |-> <<"uint64">>,
   dynamic |-> FALSE,
   errSends |-> <<>>,
   rowSends |-> <<
       [desc |-> [fq |-> <<"namespace", "NDBInfo", <<"backup_id">>>>, help |-> <<"The ID of the backup started most recently for this cluster.">>, labels |-> <<>>],
        vtype |-> "GaugeValue", value |-> [k |-> "var", x |-> "id"],
        labels |-> <<>>]>>]

ScrapeNDBInfoBackupID ==
  [name |-> <<"NDBInfo", ".backup_id">>,
   version |-> 80,
   columns |-> <<
      [name |-> "id", nullable |-> TRUE, dflt |-> <<>>]>>,
   dests |-> <<"id">>,
   types |-> <<"uint64">>,
   dynamic |-> FALSE,
   errSends |-> <<>>,
   rowSends |-> <<
       [desc |-> [fq |-> <<"namespace", "NDBInfo", <<"backup_id">>>>, help |-> <<"The ID of the backup started most recently for this cluster.">>, labels |-> <<>>],
        vtype |-> "GaugeValue", value |-> [k |-> "var", x |-> "id"],
        labels |-> <<>>]>>]

ScrapeNDBInfoClusterLocks ==
  [name |-> <<"NDBInfo", ".cluster_locks">>,
   version |-> 80,
   columns |-> <<
      [name |-> "node_id", nullable |-> TRUE, dflt |-> <<>>],
      [name |-> "tableid", nullable |-> TRUE, dflt |-> <<>>],
      [name |-> "fragmentid", nullable |-> TRUE, dflt |-> <<>>],
      [name |-> "rowid", nullable |-> TRUE, dflt |-> <<>>],
      [name |-> "mode", nullable |-> TRUE, dflt |-> <<>>],
      [name |-> "state", nullable |-> TRUE, dflt |-> <<>>],
      [name |-> "detail", nullable |-> TRUE, dflt |-> <<>>],
      [name |-> "op", nullable |-> TRUE, dflt |-> <<>>],
      [name |-> "duration_millis", nullable |-> TRUE, dflt |-> <<>>],
      [name |-> "lock_num", nullable |-> TRUE, dflt |-> <<>>],
      [name |-> "waiting_for", nullable |-> TRUE, dflt |-> <<StrVal("")>>]>>,
   dests |-> <<"nodeID", "tableID", "fragmentID", "rowID", "mode", "state", "detail", "op", "durationMillis", "lockNum", "waitingFor">>,
   types |-> <<"string", "string", "string", "string", "string", "string", "string", "string", "uint64", "string", "string">>,
   dynamic |-> FALSE,
   errSends |-> <<>>,
   rowSends |-> <<
       [desc |-> [fq |-> <<"namespace", "NDBInfo", <<"cluster_locks_duration_millis">>>>, help |-> <<"The amount of time spent waiting or holding lock in milliseconds by node_id/tableid/fragmentid/rowid/mode/state/detail/op/lock_num/waiting_for.">>, labels |-> <<"node_id", "tableid", "fragmentid", "rowid", "mode", "state", "detail", "op", "lock_num", "waiting_for">>],
        vtype |-> "GaugeValue", value |-> [k |-> "var", x |-> "durationMillis"],
        labels |-> <<[k |-> "var", x |-> "nodeID"], [k |-> "var", x |-> "tableID"], [k |-> "var", x |-> "fragmentID"], [k |-> "var", x |-> "rowID"], [k |-> "var", x |-> "mode"], [k |-> "var", x |-> "state"], [k |-> "var", x |-> "detail"], [k |-> "var", x |-> "op"], [k |-> "var", x |-> "lockNum"], [k |-> "var", x |-> "waitingFor"]>>]>>]

ScrapeNDBInfoClusterOperations ==
  [name |-> <<"NDBInfo", ".cluster_operations">>,
   version |-> 80,
   columns |-> <<
      [name |-> "node_id", nullable |-> TRUE, dflt |-> <<>>],
      [name |-> "block_instance", nullable |-> TRUE, dflt |-> <<>>],
      [name |-> "operation_type", nullable |-> TRUE, dflt |-> <<>>],
      [name |-> "state", nullable |-> TRUE, dflt |-> <<StrVal("")>>],
      [name |-> "tableid", nullable |-> TRUE, dflt |-> <<>>],
      [name |-> "fragmentid", nullable |-> TRUE, dflt |-> <<>>],
      [name |-> "client_node_id", nullable |-> TRUE, dflt |-> <<>>],
      [name |-> "tc_node_id", nullable |-> TRUE, dflt |-> <<>>],
      [name |-> "tc_block_no", nullable |-> TRUE, dflt |-> <<>>],
      [name |-> "tc_block_instance", nullable |-> TRUE, dflt |-> <<>>],
      [name |-> "current_ops", nullable |-> FALSE, dflt |-> <<>>]>>,
   dests |-> <<"nodeID", "blockInstance", "operationType", "state", "tableID", "fragmentID", "clientNodeID", "tcNodeID", "tcBlockNo", "tcBlockInstance", "currentOps">>,
   types |-> <<"string", "string", "string", "string", "string", "string", "string", "string", "string", "string", "uint64">>,
   dynamic |-> FALSE,
   errSends |-> <<>>,
   rowSends |-> <<
       [desc |-> [fq |-> <<"namespace", "NDBInfo", <<"cluster_operations_current">>>>, help |-> <<"The amount of current cluster operations by node_id/block_instance/operation_type/state/tableid/fragmentid/client_node_id/tc_node_id/tc_block_no/tc_block_instance.">>, labels |-> <<"node_id", "block_instance", "operation_type", "state", "tableid", "fragmentid", "client_node_id", "tc_node_id", "tc_block_no", "tc_block_instance">>],
        vtype |-> "GaugeValue", value |-> [k |-> "var", x |-> "currentOps"],
        labels |-> <<[k |-> "var", x |-> "nodeID"], [k |-> "var", x |-> "blockInstance"], [k |-> "var", x |-> "operationType"], [k |-> "var", x |-> "state"], [k |-> "var", x |-> "tableID"], [k |-> "var", x |-> "fragmentID"], [k |-> "var", x |-> "clientNodeID"], [k |-> "var", x |-> "tcNodeID"], [k |-> "var", x |-> "tcBlockNo"], [k |-> "var", x |-> "tcBlockInstance"]>>]>>]

ScrapeNDBInfoDictObjTree ==
  [name |-> <<"NDBInfo", ".dict_obj_tree">>,
   version |-> 80,
   columns |-> <<
      [name |-> "type", nullable |-> TRUE, dflt |-> <<>>],
      [name |-> "id", nullable |-> TRUE, dflt |-> <<>>],
      [name |-> "name", nullable |-> TRUE, dflt |-> <<>>],
      [name |-> "parent_type", nullable |-> TRUE, dflt |-> <<>>],
      [name |-> "parent_id", nullable |-> TRUE, dflt |-> <<>>],
      [name |-> "parent_name", nullable |-> TRUE, dflt |-> <<>>],
      [name |-> "root_type", nullable |-> TRUE, dflt |-> <<>>],
      [name |-> "root_id", nullable |-> TRUE, dflt |-> <<>>],
      [name |-> "root_name", nullable |-> TRUE, dflt |-> <<>>],
      [name |-> "level", nullable |-> TRUE, dflt |-> <<>>],
      [name |-> "path", nullable |-> TRUE, dflt |-> <<>>],
      [name |-> "indented_name", nullable |-> TRUE, dflt |-> <<>>]>>,
   dests |-> <<"dictType", "id", "name", "parentType", "parentID", "parentName", "rootType", "rootID", "rootName", "level", "path", "indentedName">>,
   types |-> <<"string", "string", "string", "string", "string", "string", "string", "string", "string", "uint64", "string", "string">>,
   dynamic |-> FALSE,
   errSends |-> <<>>,
   rowSends |-> <<
       [desc |-> [fq |-> <<"namespace", "NDBInfo", <<"dict_obj_tree_level">>>>, help |-> <<"Level of the object in the hierarchy by type/id/name/parent_type/parent_id/parent_name/root_type/root_id/root_name/path/indented_name.">>, labels |-> <<"type", "id", "name", "parent_type", "parent_id", "parent_name", "root_type", "root_id", "root_name", "path", "indented_name">>],
        vtype |-> "GaugeValue", value |-> [k |-> "var", x |-> "level"],
        labels |-> <<[k |-> "var", x |-> "dictType"], [k |-> "var", x |-> "id"], [k |-> "var", x |-> "name"], [k |-> "var", x |-> "parentType"], [k |-> "var", x |-> "parentID"], [k |-> "var", x |-> "parentName"], [k |-> "var", x |-> "rootType"], [k |-> "var", x |-> "rootID"], [k |-> "var", x |-> "rootName"], [k |-> "var", x |-> "path"], [k |-> "var", x |-> "indentedName"]>>]>>]

ScrapeNDBInfoDictObjTypes ==
  [name |-> <<"NDBInfo", ".dict_obj_types">>,
   version |-> 80,
   columns |-> <<
      [name |-> "type_id", nullable |-> TRUE, dflt |-> <<>>],
      [name |-> "type_name", nullable |-> TRUE, dflt |-> <<>>]>>,
   dests |-> <<"typeID", "typeName">>,
   types |-> <<"string", "string">>,
   dynamic |-> FALSE,
   errSends |-> <<
       [desc |-> [fq |-> <<"namespace", "NDBInfo", <<"dict_obj_types">>>>, help |-> <<"Returns 1 if query is successful, 0 if error encountered.">>, labels |-> <<"type_id", "type_name">>],
        vtype |-> "GaugeValue", value |-> [k |-> "const", x |-> "0"],
        labels |-> <<[k |-> "var", x |-> "typeID"], [k |-> "var", x |-> "typeName"]>>]>>,
   rowSends |-> <<
       [desc |-> [fq |-> <<"namespace", "NDBInfo", <<"dict_obj_types">>>>, help |-> <<"Returns 1 if query is successful, 0 if error encountered.">>, labels |-> <<"type_id", "type_name">>],
        vtype |-> "GaugeValue", value |-> [k |-> "const", x |-> "1"],
        labels |-> <<[k |-> "var", x |-> "typeID"], [k |-> "var", x |-> "typeName"]>>]>>]

ScrapeNDBInfoDiskStat ==
  [name |-> <<"NDBInfo", ".diskstat">>,
   version |-> 80,
   columns |-> <<
      [name |-> "node_id", nullable |-> TRUE, dflt |-> <<>>],
      [name |-> "block_instance", nullable |-> TRUE, dflt |-> <<>>],
      [name |-> "pages_made_dirty", nullable |-> TRUE, dflt |-> <<>>],
      [name |-> "reads_issued", nullable |-> TRUE, dflt |-> <<>>],
      [name |-> "reads_completed", nullable |-> TRUE, dflt |-> <<>>],
      [name |-> "writes_issued", nullable |-> TRUE, dflt |-> <<>>],
      [name |-> "writes_completed", nullable |-> TRUE, dflt |-> <<>>],
      [name |-> "log_writes_issued", nullable |-> TRUE, dflt |-> <<>>],
      [name |-> "log_writes_completed", nullable |-> TRUE, dflt |-> <<>>],
      [name |-> "get_page_calls_issued", nullable |-> TRUE, dflt |-> <<>>],
      [name |-> "get_page_reqs_issued", nullable |-> TRUE, dflt |-> <<>>],
      [name |-> "get_page_reqs_completed", nullable |-> TRUE, dflt |-> <<>>]>>,
   dests |-> <<"nodeID", "blockInstance", "pagesMadeDirty", "readsIssued", "readsCompleted", "writesIssued", "writesCompleted", "logWritesIssued", "logWritesCompleted", "getPageCallsIssued", "getPageReqsIssued", "getPageReqsCompleted">>,
   types |-> <<"string", "string", "uint64", "uint64", "uint64", "uint64", "uint64", "uint64", "uint64", "uint64", "uint64", "uint64">>,
   dynamic |-> FALSE,
   errSends |-> <<>>,
   rowSends |-> <<
       [desc |-> [fq |-> <<"namespace", "NDBInfo", <<"diskstat_pages_made_dirty">>>>, help |-> <<"The amount of pages made dirty during the past second by node_id/block_instance.">>, labels |-> <<"node_id", "block_instance">>],
        vtype |-> "GaugeValue", value |-> [k |-> "var", x |-> "pagesMadeDirty"],
        labels |-> <<[k |-> "var", x |-> "nodeID"], [k |-> "var", x |-> "blockInstance"]>>],
       [desc |-> [fq |-> <<"namespace", "NDBInfo", <<"diskstat_reads">>>>, help |-> <<"The amount of reads issued/completed during the past second by node_id/block_instance/action.">>, labels |-> <<"node_id", "block_instance", "action">>],
        vtype |-> "GaugeValue", value |-> [k |-> "var", x |-> "readsIssued"],
        labels |-> <<[k |-> "var", x |-> "nodeID"], [k |-> "var", x |-> "blockInstance"], [k |-> "lit", x |-> "issued"]>>],
       [desc |-> [fq |-> <<"namespace", "NDBInfo", <<"diskstat_reads">>>>, help |-> <<"The amount of reads issued/completed during the past second by node_id/block_instance/action.">>, labels |-> <<"node_id", "block_instance", "action">>],
        vtype |-> "GaugeValue", value |-> [k |-> "var", x |-> "readsCompleted"],
        labels |-> <<[k |-> "var", x |-> "nodeID"], [k |-> "var", x |-> "blockInstance"], [k |-> "lit", x |-> "completed"]>>],
       [desc |-> [fq |-> <<"namespace", "NDBInfo", <<"diskstat_writes">>>>, help |-> <<"The amount of writes issued/completed during the past second by node_id/block_instance/action.">>, labels |-> <<"node_id", "block_instance", "action">>],
        vtype |-> "GaugeValue", value |-> [k |-> "var", x |-> "writesIssued"],
        labels |-> <<[k |-> "var", x |-> "nodeID"], [k |-> "var", x |-> "blockInstance"], [k |-> "lit", x |-> "issued"]>>],
       [desc |-> [fq |-> <<"namespace", "NDBInfo", <<"diskstat_writes">>>>, help |-> <<"The amount of writes issued/completed during the past second by node_id/block_instance/action.">>, labels |-> <<"node_id", "block_instance", "action">>],
        vtype |-> "GaugeValue", value |-> [k |-> "var", x |-> "writesCompleted"],
        labels |-> <<[k |-> "var", x |-> "nodeID"], [k |-> "var", x |-> "blockInstance"], [k |-> "lit", x |-> "completed"]>>],
       [desc |-> [fq |-> <<"namespace", "NDBInfo", <<"diskstat_log_writes">>>>, help |-> <<"The amount of log writes issued/completed during the past second by node_id/block_instance/action.">>, labels |-> <<"node_id", "block_instance", "action">>],
        vtype |-> "GaugeValue", value |-> [k |-> "var", x |-> "logWritesIssued"],
        labels |-> <<[k |-> "var", x |-> "nodeID"], [k |-> "var", x |-> "blockInstance"], [k |-> "lit", x |-> "issued"]>>],
       [desc |-> [fq |-> <<"namespace", "NDBInfo", <<"diskstat_log_writes">>>>, help |-> <<"The amount of log writes issued/completed during the past second by node_id/block_instance/action.">>, labels |-> <<"node_id", "block_instance", "action">>],
        vtype |-> "GaugeValue", value |-> [k |-> "var", x |-> "logWritesCompleted"],
        labels |-> <<[k |-> "var", x |-> "nodeID"], [k |-> "var", x |-> "blockInstance"], [k |-> "lit", x |-> "completed"]>>],
       [desc |-> [fq |-> <<"namespace", "NDBInfo", <<"diskstat_get_page_calls">>>>, help |-> <<"The amount of get_page() call actions during the past second by node_id/block_instance/action.">>, labels |-> <<"node_id", "block_instance", "action">>],
        vtype |-> "GaugeValue", value |-> [k |-> "var", x |-> "getPageCallsIssued"],
        labels |-> <<[k |-> "var", x |-> "nodeID"], [k |-> "var", x |-> "blockInstance"], [k |-> "lit", x |-> "issued"]>>],
       [desc |-> [fq |-> <<"namespace", "NDBInfo", <<"diskstat_get_page_reqs">>>>, help |-> <<"The amount of get_page() requests issued/completed during the past second by node_id/block_instance/action.">>, labels |-> <<"node_id", "block_instance", "action">>],
        vtype |-> "GaugeValue", value |-> [k |-> "var", x |-> "getPageReqsIssued"],
        labels |-> <<[k |-> "var", x |-> "nodeID"], [k |-> "var", x |-> "blockInstance"], [k |-> "lit", x |-> "issued"]>>],
       [desc |-> [fq |-> <<"namespace", "NDBInfo", <<"diskstat_get_page_reqs">>>>, help |-> <<"The amount of get_page() requests issued/completed during the past second by node_id/block_instance/action.">>, labels |-> <<"node_id", "block_instance", "action">>],
        vtype |-> "GaugeValue", value |-> [k |-> "var", x |-> "getPageReqsCompleted"],
        labels |-> <<[k |-> "var", x |-> "nodeID"], [k |-> "var", x |-> "blockInstance"], [k |-> "lit", x |-> "completed"]>>]>>]

ScrapeNDBInfoFiles ==
  [name |-> <<"NDBInfo", ".files">>,
   version |-> 80,
   columns |-> <<
      [name |-> "id", nullable |-> TRUE, dflt |-> <<>>],
      [name |-> "type", nullable |-> TRUE, dflt |-> <<>>],
      [name |-> "name", nullable |-> TRUE, dflt |-> <<>>],
      [name |-> "parent", nullable |-> TRUE, dflt |-> <<>>],
      [name |-> "parent_name", nullable |-> TRUE, dflt |-> <<>>],
      [name |-> "free_extents", nullable |-> TRUE, dflt |-> <<>>],
      [name |-> "total_extents", nullable |-> TRUE, dflt |-> <<>>],
      [name |-> "extent_size_bytes", nullable |-> TRUE, dflt |-> <<>>],
      [name |-> "initial_size", nullable |-> TRUE, dflt |-> <<>>],
      [name |-> "maximum_size", nullable |-> TRUE, dflt |-> <<>>],
      [name |-> "autoextend_size", nullable |-> TRUE, dflt |-> <<>>]>>,
   dests |-> <<"id", "fileType", "name", "parent", "parentName", "freeExtents", "totalExtents", "extentSize", "initialSize", "maximumSize", "autoExtendSize">>,
   types |-> <<"string", "string", "string", "string", "string", "uint64", "uint64", "uint64", "uint64", "uint64", "uint64">>,
   dynamic |-> FALSE,
   errSends |-> <<>>,
   rowSends |-> <<
       [desc |-> [fq |-> <<"namespace", "NDBInfo", <<"files_extents">>>>, help |-> <<"The amount of free extents by id/type/name/parent/parent_name/amount_type.">>, labels |-> <<"id", "type", "name", "parent", "parent_name", "amount_type">>],
        vtype |-> "GaugeValue", value |-> [k |-> "var", x |-> "freeExtents"],
        labels |-> <<[k |-> "var", x |-> "id"], [k |-> "var", x |-> "fileType"], [k |-> "var", x |-> "name"], [k |-> "var", x |-> "parent"], [k |-> "var", x |-> "parentName"], [k |-> "lit", x |-> "free"]>>],
       [desc |-> [fq |-> <<"namespace", "NDBInfo", <<"files_extents">>>>, help |-> <<"The amount of free extents by id/type/name/parent/parent_name/amount_type.">>, labels |-> <<"id", "type", "name", "parent", "parent_name", "amount_type">>],
        vtype |-> "GaugeValue", value |-> [k |-> "var", x |-> "totalExtents"],
        labels |-> <<[k |-> "var", x |-> "id"], [k |-> "var", x |-> "fileType"], [k |-> "var", x |-> "name"], [k |-> "var", x |-> "parent"], [k |-> "var", x |-> "parentName"], [k |-> "lit", x |-> "total"]>>],
       [desc |-> [fq |-> <<"namespace", "NDBInfo", <<"files_size_bytes">>>>, help |-> <<"The extent size in bytes by id/type/name/parent/parent_name/size_type.">>, labels |-> <<"id", "type", "name", "parent", "parent_name", "size_type">>],
        vtype |-> "GaugeValue", value |-> [k |-> "var", x |-> "extentSize"],
        labels |-> <<[k |-> "var", x |-> "id"], [k |-> "var", x |-> "fileType"], [k |-> "var", x |-> "name"], [k |-> "var", x |-> "parent"], [k |-> "var", x |-> "parentName"], [k |-> "lit", x |-> "extent"]>>],
       [desc |-> [fq |-> <<"namespace", "NDBInfo", <<"files_size_bytes">>>>, help |-> <<"The extent size in bytes by id/type/name/parent/parent_name/size_type.">>, labels |-> <<"id", "type", "name", "parent", "parent_name", "size_type">>],
        vtype |-> "GaugeValue", value |-> [k |-> "var", x |-> "initialSize"],
        labels |-> <<[k |-> "var", x |-> "id"], [k |-> "var", x |-> "fileType"], [k |-> "var", x |-> "name"], [k |-> "var", x |-> "parent"], [k |-> "var", x |-> "parentName"], [k |-> "lit", x |-> "initial"]>>],
       [desc |-> [fq |-> <<"namespace", "NDBInfo", <<"files_size_bytes">>>>, help |-> <<"The extent size in bytes by id/type/name/parent/parent_name/size_type.">>, labels |-> <<"id", "type", "name", "parent", "parent_name", "size_type">>],
        vtype |-> "GaugeValue", value |-> [k |-> "var", x |-> "maximumSize"],
        labels |-> <<[k |-> "var", x |-> "id"], [k |-> "var", x |-> "fileType"], [k |-> "var", x |-> "name"], [k |-> "var", x |-> "parent"], [k |-> "var", x |-> "parentName"], [k |-> "lit", x |-> "maximum"]>>],
       [desc |-> [fq |-> <<"namespace", "NDBInfo", <<"files_size_bytes">>>>, help |-> <<"The extent size in bytes by id/type/name/parent/parent_name/size_type.">>, labels |-> <<"id", "type", "name", "parent", "parent_name", "size_type">>],
        vtype |-> "GaugeValue", value |-> [k |-> "var", x |-> "autoExtendSize"],
        labels |-> <<[k |-> "var", x |-> "id"], [k |-> "var", x |-> "fileType"], [k |-> "var", x |-> "name"], [k |-> "var", x |-> "parent"], [k |-> "var", x |-> "parentName"], [k |-> "lit", x |-> "autoextend"]>>]>>]

ScrapeNDBInfoForeignKeys ==
  [name |-> <<"NDBInfo", ".foreign_keys">>,
   version |-> 80,
   columns |-> <<
      [name |-> "object_id", nullable |-> TRUE, dflt |-> <<>>],
      [name |-> "name", nullable |-> TRUE, dflt |-> <<>>],
      [name |-> "parent_table", nullable |-> TRUE, dflt |-> <<>>],
      [name |-> "parent_columns", nullable |-> TRUE, dflt |-> <<>>],
      [name |-> "child_table", nullable |-> TRUE, dflt |-> <<>>],
      [name |-> "child_columns", nullable |-> TRUE, dflt |-> <<>>],
      [name |-> "parent_index", nullable |-> TRUE, dflt |-> <<>>],
      [name |-> "child_index", nullable |-> TRUE, dflt |-> <<>>],
      [name |-> "on_update_action", nullable |-> TRUE, dflt |-> <<>>],
      [name |-> "on_delete_action", nullable |-> TRUE, dflt |-> <<>>]>>,
   dests |-> <<"objectID", "name", "parentTable", "parentColumns", "childTable", "childColumns", "parentIndex", "childIndex", "onUpdateAction", "onDeleteAction">>,
   types |-> <<"string", "string", "string", "uint64", "string", "uint64", "string", "string", "string", "string">>,
   dynamic |-> FALSE,
   errSends |-> <<>>,
   rowSends |-> <<
       [desc |-> [fq |-> <<"namespace", "NDBInfo", <<"foreign_keys_columns">>>>, help |-> <<"The amount of columns by object_id/name/parent_table/child_table/parent_index/child_index/on_update_action/on_delete_action/column_type.">>, labels |-> <<"object_id", "name", "parent_table", "child_table", "parent_index", "child_index", "on_update_action", "on_delete_action", "column_type">>],
        vtype |-> "GaugeValue", value |-> [k |-> "var", x |-> "parentColumns"],
        labels |-> <<[k |-> "var", x |-> "objectID"], [k |-> "var", x |-> "name"], [k |-> "var", x |-> "parentTable"], [k |-> "var", x |-> "childTable"], [k |-> "var", x |-> "parentIndex"], [k |-> "var", x |-> "childIndex"], [k |-> "var", x |-> "onUpdateAction"], [k |-> "var", x |-> "onDeleteAction"], [k |-> "lit", x |-> "parent"]>>],
       [desc |-> [fq |-> <<"namespace", "NDBInfo", <<"foreign_keys_columns">>>>, help |-> <<"The amount of columns by object_id/name/parent_table/child_table/parent_index/child_index/on_update_action/on_delete_action/column_type.">>, labels |-> <<"object_id", "name", "parent_table", "child_table", "parent_index", "child_index", "on_update_action", "on_delete_action", "column_type">>],
        vtype |-> "GaugeValue", value |-> [k |-> "var", x |-> "childColumns"],
        labels |-> <<[k |-> "var", x |-> "objectID"], [k |-> "var", x |-> "name"], [k |-> "var", x |-> "parentTable"], [k |-> "var", x |-> "childTable"], [k |-> "var", x |-> "parentIndex"], [k |-> "var", x |-> "childIndex"], [k |-> "var", x |-> "onUpdateAction"], [k |-> "var", x |-> "onDeleteAction"], [k |-> "lit", x |-> "child"]>>]>>]

ScrapeNDBInfoCPUData ==
  [name |-> <<"NDBInfo", ".cpudata">>,
   version |-> 80,
   columns |-> <<
      [name |-> "node_id", nullable |-> TRUE, dflt |-> <<>>],
      [name |-> "cpu_no", nullable |-> TRUE, dflt |-> <<>>],
      [name |-> "cpu_online", nullable |-> TRUE, dflt |-> <<>>],
      [name |-> "cpu_userspace_time", nullable |-> TRUE, dflt |-> <<>>],
      [name |-> "cpu_idle_time", nullable |-> TRUE, dflt |-> <<>>],
      [name |-> "cpu_system_time", nullable |-> TRUE, dflt |-> <<>>],
      [name |-> "cpu_interrupt_time", nullable |-> TRUE, dflt |-> <<>>],
      [name |-> "cpu_exec_vm_time", nullable |-> TRUE, dflt |-> <<>>]>>,
   dests |-> <<"nodeID", "cpuNo", "cpuOnline", "cpuUserspaceTime", "cpuIdleTime", "cpuSystemTime", "cpuInterruptTime", "cpuExecVMTime">>,
   types |-> <<"string", "string", "uint64", "uint64", "uint64", "uint64", "uint64", "uint64">>,
   dynamic |-> FALSE,
   errSends |-> <<>>,
   rowSends |-> <<
       [desc |-> [fq |-> <<"namespace", "NDBInfo", <<"cpudata_cpu_online">>>>, help |-> <<"The status of CPU by node_id/cpu_no. 1 if the CPU is currently online, otherwise 0.">>, labels |-> <<"node_id", "cpu_no">>],
        vtype |-> "GaugeValue", value |-> [k |-> "var", x |-> "cpuOnline"],
        labels |-> <<[k |-> "var", x |-> "nodeID"], [k |-> "var", x |-> "cpuNo"]>>],
       [desc |-> [fq |-> <<"namespace", "NDBInfo", <<"cpudata_cpu_time">>>>, help |-> <<"The amount of time the CPUs spent in each mode during last second by node_id/cpu_no/mode.">>, labels |-> <<"node_id", "cpu_no", "mode">>],
        vtype |-> "GaugeValue", value |-> [k |-> "var", x |-> "cpuUserspaceTime"],
        labels |-> <<[k |-> "var", x |-> "nodeID"], [k |-> "var", x |-> "cpuNo"], [k |-> "lit", x |-> "userspace"]>>],
       [desc |-> [fq |-> <<"namespace", "NDBInfo", <<"cpudata_cpu_time">>>>, help |-> <<"The amount of time the CPUs spent in each mode during last second by node_id/cpu_no/mode.">>, labels |-> <<"node_id", "cpu_no", "mode">>],
        vtype |-> "GaugeValue", value |-> [k |-> "var", x |-> "cpuIdleTime"],
        labels |-> <<[k |-> "var", x |-> "nodeID"], [k |-> "var", x |-> "cpuNo"], [k |-> "lit", x |-> "idle"]>>],
       [desc |-> [fq |-> <<"namespace", "NDBInfo", <<"cpudata_cpu_time">>>>, help |-> <<"The amount of time the CPUs spent in each mode during last second by node_id/cpu_no/mode.">>, labels |-> <<"node_id", "cpu_no", "mode">>],
        vtype |-> "GaugeValue", value |-> [k |-> "var", x |-> "cpuSystemTime"],
        labels |-> <<[k |-> "var", x |-> "nodeID"], [k |-> "var", x |-> "cpuNo"], [k |-> "lit", x |-> "system"]>>],
       [desc |-> [fq |-> <<"namespace", "NDBInfo", <<"cpudata_cpu_time">>>>, help |-> <<"The amount of time the CPUs spent in each mode during last second by node_id/cpu_no/mode.">>, labels |-> <<"node_id", "cpu_no", "mode">>],
        vtype |-> "GaugeValue", value |-> [k |-> "var", x |-> "cpuInterruptTime"],
        labels |-> <<[k |-> "var", x |-> "nodeID"], [k |-> "var", x |-> "cpuNo"], [k |-> "lit", x |-> "interrupt"]>>],
       [desc |-> [fq |-> <<"namespace", "NDBInfo", <<"cpudata_cpu_time">>>>, help |-> <<"The amount of time the CPUs spent in each mode during last second by node_id/cpu_no/mode.">>, labels |-> <<"node_id", "cpu_no", "mode">>],
        vtype |-> "GaugeValue", value |-> [k |-> "var", x |-> "cpuExecVMTime"],
        labels |-> <<[k |-> "var", x |-> "nodeID"], [k |-> "var", x |-> "cpuNo"], [k |-> "lit", x |-> "exec_vm"]>>]>>]

ScrapeNDBInfoHashMaps ==
  [name |-> <<"NDBInfo", ".hash_maps">>,
   version |-> 80,
   columns |-> <<
      [name |-> "id", nullable |-> TRUE, dflt |-> <<>>],
      [name |-> "version", nullable |-> TRUE, dflt |-> <<>>],
      [name |-> "state", nullable |-> TRUE, dflt |-> <<>>]>>,
   dests |-> <<"id", "version", "state">>,
   types |-> <<"string", "uint64", "uint64">>,
   dynamic |-> FALSE,
   errSends |-> <<>>,
   rowSends |-> <<
       [desc |-> [fq |-> <<"namespace", "NDBInfo", <<"hash_maps_version">>>>, help |-> <<"The version of the hash map by id.">>, labels |-> <<"id">>],
        vtype |-> "GaugeValue", value |-> [k |-> "var", x |-> "version"],
        labels |-> <<[k |-> "var", x |-> "id"]>>],
       [desc |-> [fq |-> <<"namespace", "NDBInfo", <<"hash_maps_state">>>>, help |-> <<"The state of the hash map by id. For human presentation of states, see documentation.">>, labels |-> <<"id">>],
        vtype |-> "GaugeValue", value |-> [k |-> "var", x |-> "state"],
        labels |-> <<[k |-> "var", x |-> "id"]>>]>>]

ScrapeNDBInfoIndexStats ==
  [name |-> <<"NDBInfo", ".index_stats">>,
   version |-> 80,
   columns |-> <<
      [name |-> "index_id", nullable |-> TRUE, dflt |-> <<>>],
      [name |-> "index_version", nullable |-> TRUE, dflt |-> <<>>],
      [name |-> "sample_version", nullable |-> TRUE, dflt |-> <<>>],
      [name |-> "load_time", nullable |-> TRUE, dflt |-> <<>>],
      [name |-> "sample_count", nullable |-> TRUE, dflt |-> <<>>]>>,
   dests |-> <<"indexId", "indexVersion", "sampleVersion", "loadTime", "sampleCount">>,
   types |-> <<"string", "uint64", "uint64", "uint64", "uint64">>,
   dynamic |-> FALSE,
   errSends |-> <<>>,
   rowSends |-> <<
       [desc |-> [fq |-> <<"namespace", "NDBInfo", <<"index_stats_version">>>>, help |-> <<"The current version of index by index_id/type.">>, labels |-> <<"index_id", "type">>],
        vtype |-> "GaugeValue", value |-> [k |-> "var", x |-> "indexVersion"],
        labels |-> <<[k |-> "var", x |-> "indexId"], [k |-> "lit", x |-> "index"]>>],
       [desc |-> [fq |-> <<"namespace", "NDBInfo", <<"index_stats_version">>>>, help |-> <<"The current version of index by index_id/type.">>, labels |-> <<"index_id", "type">>],
        vtype |-> "GaugeValue", value |-> [k |-> "var", x |-> "sampleVersion"],
        labels |-> <<[k |-> "var", x |-> "indexId"], [k |-> "lit", x |-> "sample"]>>],
       [desc |-> [fq |-> <<"namespace", "NDBInfo", <<"index_stats_load_time">>>>, help |-> <<"The UNIX timestamp of last loaded statistics by index_id.">>, labels |-> <<"index_id">>],
        vtype |-> "GaugeValue", value |-> [k |-> "var", x |-> "loadTime"],
        labels |-> <<[k |-> "var", x |-> "indexId"]>>],
       [desc |-> [fq |-> <<"namespace", "NDBInfo", <<"index_stats_sample_count">>>>, help |-> <<"The amount of samples collected for the index statistics by index_id.">>, labels |-> <<"index_id">>],
        vtype |-> "GaugeValue", value |-> [k |-> "var", x |-> "sampleCount"],
        labels |-> <<[k |-> "var", x |-> "indexId"]>>]>>]

ScrapeNDBInfoLocksPerFragment ==
  [name |-> <<"NDBInfo", ".locks_per_fragment">>,
   version |-> 80,
   columns |-> <<
      [name |-> "table_id", nullable |-> TRUE, dflt |-> <<>>],
      [name |-> "node_id", nullable |-> TRUE, dflt |-> <<>>],
      [name |-> "fragment_num", nullable |-> TRUE, dflt |-> <<>>],
      [name |-> "ex_req", nullable |-> TRUE, dflt |-> <<>>],
      [name |-> "ex_imm_ok", nullable |-> TRUE, dflt |-> <<>>],
      [name |-> "ex_wait_ok", nullable |-> TRUE, dflt |-> <<>>],
      [name |-> "ex_wait_fail", nullable |-> TRUE, dflt |-> <<>>],
      [name |-> "sh_req", nullable |-> TRUE, dflt |-> <<>>],
      [name |-> "sh_imm_ok", nullable |-> TRUE, dflt |-> <<>>],
      [name |-> "sh_wait_ok", nullable |-> TRUE, dflt |-> <<>>],
      [name |-> "sh_wait_fail", nullable |-> TRUE, dflt |-> <<>>],
      [name |-> "wait_ok_millis", nullable |-> TRUE, dflt |-> <<>>],
      [name |-> "wait_fail_millis", nullable |-> TRUE, dflt |-> <<>>]>>,
   dests |-> <<"tableID", "nodeID", "fragmentNum", "exReq", "exImmOk", "exWaitOk", "exWaitFail", "shReq", "shImmOk", "shWaitOk", "shWaitFail", "waitOkMillis", "waitFailMillis">>,
   types |-> <<"string", "string", "string", "uint64", "uint64", "uint64", "uint64", "uint64", "uint64", "uint64", "uint64", "uint64", "uint64">>,
   dynamic |-> FALSE,
   errSends |-> <<>>,
   rowSends |-> <<
       [desc |-> [fq |-> <<"namespace", "NDBInfo", <<"locks_per_fragment_ex_total">>>>, help |-> <<"The amount of exclusive lock requests by table_id/node_id/fragment_num/action.">>, labels |-> <<"table_id", "node_id", "fragment_num", "action">>],
        vtype |-> "CounterValue", value |-> [k |-> "var", x |-> "exReq"],
        labels |-> <<[k |-> "var", x |-> "tableID"], [k |-> "var", x |-> "nodeID"], [k |-> "var", x |-> "fragmentNum"], [k |-> "lit", x |-> "req"]>>],
       [desc |-> [fq |-> <<"namespace", "NDBInfo", <<"locks_per_fragment_ex_total">>>>, help |-> <<"The amount of exclusive lock requests by table_id/node_id/fragment_num/action.">>, labels |-> <<"table_id", "node_id", "fragment_num", "action">>],
        vtype |-> "CounterValue", value |-> [k |-> "var", x |-> "exImmOk"],
        labels |-> <<[k |-> "var", x |-> "tableID"], [k |-> "var", x |-> "nodeID"], [k |-> "var", x |-> "fragmentNum"], [k |-> "lit", x |-> "imm_ok"]>>],
       [desc |-> [fq |-> <<"namespace", "NDBInfo", <<"locks_per_fragment_ex_total">>>>, help |-> <<"The amount of exclusive lock requests by table_id/node_id/fragment_num/action.">>, labels |-> <<"table_id", "node_id", "fragment_num", "action">>],
        vtype |-> "CounterValue", value |-> [k |-> "var", x |-> "exWaitOk"],
        labels |-> <<[k |-> "var", x |-> "tableID"], [k |-> "var", x |-> "nodeID"], [k |-> "var", x |-> "fragmentNum"], [k |-> "lit", x |-> "wait_ok"]>>],
       [desc |-> [fq |-> <<"namespace", "NDBInfo", <<"locks_per_fragment_ex_total">>>>, help |-> <<"The amount of exclusive lock requests by table_id/node_id/fragment_num/action.">>, labels |-> <<"table_id", "node_id", "fragment_num", "action">>],
        vtype |-> "CounterValue", value |-> [k |-> "var", x |-> "exWaitFail"],
        labels |-> <<[k |-> "var", x |-> "tableID"], [k |-> "var", x |-> "nodeID"], [k |-> "var", x |-> "fragmentNum"], [k |-> "lit", x |-> "wait_fail"]>>],
       [desc |-> [fq |-> <<"namespace", "NDBInfo", <<"locks_per_fragment_sh_total">>>>, help |-> <<"The amount of shared lock requests by table_id/node_id/fragment_num/action.">>, labels |-> <<"table_id", "node_id", "fragment_num", "action">>],
        vtype |-> "CounterValue", value |-> [k |-> "var", x |-> "shReq"],
        labels |-> <<[k |-> "var", x |-> "tableID"], [k |-> "var", x |-> "nodeID"], [k |-> "var", x |-> "fragmentNum"], [k |-> "lit", x |-> "req"]>>],
       [desc |-> [fq |-> <<"namespace", "NDBInfo", <<"locks_per_fragment_sh_total">>>>, help |-> <<"The amount of shared lock requests by table_id/node_id/fragment_num/action.">>, labels |-> <<"table_id", "node_id", "fragment_num", "action">>],
        vtype |-> "CounterValue", value |-> [k |-> "var", x |-> "shImmOk"],
        labels |-> <<[k |-> "var", x |-> "tableID"], [k |-> "var", x |-> "nodeID"], [k |-> "var", x |-> "fragmentNum"], [k |-> "lit", x |-> "imm_ok"]>>],
       [desc |-> [fq |-> <<"namespace", "NDBInfo", <<"locks_per_fragment_sh_total">>>>, help |-> <<"The amount of shared lock requests by table_id/node_id/fragment_num/action.">>, labels |-> <<"table_id", "node_id", "fragment_num", "action">>],
        vtype |-> "CounterValue", value |-> [k |-> "var", x |-> "shWaitOk"],
        labels |-> <<[k |-> "var", x |-> "tableID"], [k |-> "var", x |-> "nodeID"], [k |-> "var", x |-> "fragmentNum"], [k |-> "lit", x |-> "wait_ok"]>>],
       [desc |-> [fq |-> <<"namespace", "NDBInfo", <<"locks_per_fragment_sh_total">>>>, help |-> <<"The amount of shared lock requests by table_id/node_id/fragment_num/action.">>, labels |-> <<"table_id", "node_id", "fragment_num", "action">>],
        vtype |-> "CounterValue", value |-> [k |-> "var", x |-> "shWaitFail"],
        labels |-> <<[k |-> "var", x |-> "tableID"], [k |-> "var", x |-> "nodeID"], [k |-> "var", x |-> "fragmentNum"], [k |-> "lit", x |-> "wait_fail"]>>],
       [desc |-> [fq |-> <<"namespace", "NDBInfo", <<"locks_per_fragment_wait_millis_total">>>>, help |-> <<"The amount of time spent waiting for lock requests that were granted/failed, in milliseconds by table_id/node_id/fragment_num/action.">>, labels |-> <<"table_id", "node_id", "fragment_num", "action">>],
        vtype |-> "CounterValue", value |-> [k |-> "var", x |-> "waitOkMillis"],
        labels |-> <<[k |-> "var", x |-> "tableID"], [k |-> "var", x |-> "nodeID"], [k |-> "var", x |-> "fragmentNum"], [k |-> "lit", x |-> "ok"]>>],
       [desc |-> [fq |-> <<"namespace", "NDBInfo", <<"locks_per_fragment_wait_millis_total">>>>, help |-> <<"The amount of time spent waiting for lock requests that were granted/failed, in milliseconds by table_id/node_id/fragment_num/action.">>, labels |-> <<"table_id", "node_id", "fragment_num", "action">>],
        vtype |-> "CounterValue", value |-> [k |-> "var", x |-> "waitFailMillis"],
        labels |-> <<[k |-> "var", x |-> "tableID"], [k |-> "var", x |-> "nodeID"], [k |-> "var", x |-> "fragmentNum"], [k |-> "lit", x |-> "fail"]>>]>>]

ScrapeNDBInfoMemoryPerFragment ==
  [name |-> <<"NDBInfo", ".memory_per_fragment">>,
   version |-> 80,
   columns |-> <<
      [name |-> "table_id", nullable |-> TRUE, dflt |-> <<>>],
      [name |-> "node_id", nullable |-> TRUE, dflt |-> <<>>],
      [name |-> "fragment_num", nullable |-> TRUE, dflt |-> <<>>],
      [name |-> "fixed_elem_alloc_bytes", nullable |-> TRUE, dflt |-> <<>>],
      [name |-> "fixed_elem_free_bytes", nullable |-> TRUE, dflt |-> <<>>],
      [name |-> "fixed_elem_size_bytes", nullable |-> TRUE, dflt |-> <<>>],
      [name |-> "fixed_elem_count", nullable |-> TRUE, dflt |-> <<>>],
      [name |-> "fixed_elem_free_count", nullable |-> TRUE, dflt |-> <<>>],
      [name |-> "var_elem_alloc_bytes", nullable |-> TRUE, dflt |-> <<>>],
      [name |-> "var_elem_free_bytes", nullable |-> TRUE, dflt |-> <<>>],
      [name |-> "var_elem_count", nullable |-> TRUE, dflt |-> <<>>],
      [name |-> "hash_index_alloc_bytes", nullable |-> TRUE, dflt |-> <<>>]>>,
   dests |-> <<"tableID", "nodeID", "fragmentNum", "fixedElemAllocBytes", "fixedElemFreeBytes", "fixedElemSizeBytes", "fixedElemCount", "fixedElemFreeCount", "varElemAllocBytes", "varElemFreeBytes", "varElemCount", "hashIndexAllocBytes">>,
   types |-> <<"string", "string", "string", "uint64", "uint64", "uint64", "uint64", "uint64", "uint64", "uint64", "uint64", "uint64">>,
   dynamic |-> FALSE,
   errSends |-> <<>>,
   rowSends |-> <<
       [desc |-> [fq |-> <<"namespace", "NDBInfo", <<"memory_per_fragment_alloc_bytes">>>>, help |-> <<"The amount of bytes allocated for type by table_id/node_id/fragment_num/type.">>, labels |-> <<"table_id", "node_id", "fragment_num", "type">>],
        vtype |-> "GaugeValue", value |-> [k |-> "var", x |-> "fixedElemAllocBytes"],
        labels |-> <<[k |-> "var", x |-> "tableID"], [k |-> "var", x |-> "nodeID"], [k |-> "var", x |-> "fragmentNum"], [k |-> "lit", x |-> "fixed"]>>],
       [desc |-> [fq |-> <<"namespace", "NDBInfo", <<"memory_per_fragment_alloc_bytes">>>>, help |-> <<"The amount of bytes allocated for type by table_id/node_id/fragment_num/type.">>, labels |-> <<"table_id", "node_id", "fragment_num", "type">>],
        vtype |-> "GaugeValue", value |-> [k |-> "var", x |-> "varElemAllocBytes"],
        labels |-> <<[k |-> "var", x |-> "tableID"], [k |-> "var", x |-> "nodeID"], [k |-> "var", x |-> "fragmentNum"], [k |-> "lit", x |-> "var"]>>],
       [desc |-> [fq |-> <<"namespace", "NDBInfo", <<"memory_per_fragment_alloc_bytes">>>>, help |-> <<"The amount of bytes allocated for type by table_id/node_id/fragment_num/type.">>, labels |-> <<"table_id", "node_id", "fragment_num", "type">>],
        vtype |-> "GaugeValue", value |-> [k |-> "var", x |-> "hashIndexAllocBytes"],
        labels |-> <<[k |-> "var", x |-> "tableID"], [k |-> "var", x |-> "nodeID"], [k |-> "var", x |-> "fragmentNum"], [k |-> "lit", x |-> "hash_index"]>>],
       [desc |-> [fq |-> <<"namespace", "NDBInfo", <<"memory_per_fragment_elem_free_bytes">>>>, help |-> <<"The amount of free bytes remaining in pages allocated to elements by table_id/node_id/fragment_num/type.">>, labels |-> <<"table_id", "node_id", "fragment_num", "type">>],
        vtype |-> "GaugeValue", value |-> [k |-> "var", x |-> "fixedElemFreeBytes"],
        labels |-> <<[k |-> "var", x |-> "tableID"], [k |-> "var", x |-> "nodeID"], [k |-> "var", x |-> "fragmentNum"], [k |-> "lit", x |-> "fixed"]>>],
       [desc |-> [fq |-> <<"namespace", "NDBInfo", <<"memory_per_fragment_elem_free_bytes">>>>, help |-> <<"The amount of free bytes remaining in pages allocated to elements by table_id/node_id/fragment_num/type.">>, labels |-> <<"table_id", "node_id", "fragment_num", "type">>],
        vtype |-> "GaugeValue", value |-> [k |-> "var", x |-> "varElemFreeBytes"],
        labels |-> <<[k |-> "var", x |-> "tableID"], [k |-> "var", x |-> "nodeID"], [k |-> "var", x |-> "fragmentNum"], [k |-> "lit", x |-> "var"]>>],
       [desc |-> [fq |-> <<"namespace", "NDBInfo", <<"memory_per_fragment_elem_count">>>>, help |-> <<"The amount of elements by table_id/node_id/fragment_num/type.">>, labels |-> <<"table_id", "node_id", "fragment_num", "type">>],
        vtype |-> "GaugeValue", value |-> [k |-> "var", x |-> "fixedElemCount"],
        labels |-> <<[k |-> "var", x |-> "tableID"], [k |-> "var", x |-> "nodeID"], [k |-> "var", x |-> "fragmentNum"], [k |-> "lit", x |-> "fixed"]>>],
       [desc |-> [fq |-> <<"namespace", "NDBInfo", <<"memory_per_fragment_elem_count">>>>, help |-> <<"The amount of elements by table_id/node_id/fragment_num/type.">>, labels |-> <<"table_id", "node_id", "fragment_num", "type">>],
        vtype |-> "GaugeValue", value |-> [k |-> "var", x |-> "varElemCount"],
        labels |-> <<[k |-> "var", x |-> "tableID"], [k |-> "var", x |-> "nodeID"], [k |-> "var", x |-> "fragmentNum"], [k |-> "lit", x |-> "var"]>>],
       [desc |-> [fq |-> <<"namespace", "NDBInfo", <<"memory_per_fragment_elem_size_bytes">>>>, help |-> <<"The length of each element in bytes by table_id/node_id/fragment_num/type.">>, labels |-> <<"table_id", "node_id", "fragment_num", "type">>],
        vtype |-> "GaugeValue", value |-> [k |-> "var", x |-> "fixedElemSizeBytes"],
        labels |-> <<[k |-> "var", x |-> "tableID"], [k |-> "var", x |-> "nodeID"], [k |-> "var", x |-> "fragmentNum"], [k |-> "lit", x |-> "fixed"]>>],
       [desc |-> [fq |-> <<"namespace", "NDBInfo", <<"memory_per_fragment_elem_free_count">>>>, help |-> <<"The amount of free rows for elements by table_id/node_id/fragment_num/type.">>, labels |-> <<"table_id", "node_id", "fragment_num", "type">>],
        vtype |-> "GaugeValue", value |-> [k |-> "var", x |-> "fixedElemFreeCount"],
        labels |-> <<[k |-> "var", x |-> "tableID"], [k |-> "var", x |-> "nodeID"], [k |-> "var", x |-> "fragmentNum"], [k |-> "lit", x |-> "fixed"]>>]>>]

ScrapeNDBInfoNodes ==
  [name |-> <<"NDBInfo", ".nodes">>,
   version |-> 80,
   columns |-> <<
      [name |-> "node_id", nullable |-> TRUE, dflt |-> <<>>],
      [name |-> "uptime", nullable |-> TRUE, dflt |-> <<>>],
      [name |-> "status", nullable |-> TRUE, dflt |-> <<>>],
      [name |-> "start_phase", nullable |-> TRUE, dflt |-> <<>>],
      [name |-> "config_generation", nullable |-> TRUE, dflt |-> <<>>]>>,
   dests |-> <<"nodeID", "uptime", "status", "startPhase", "configGeneration">>,
   types |-> <<"string", "uint64", "string", "string", "uint64">>,
   dynamic |-> FALSE,
   errSends |-> <<>>,
   rowSends |-> <<
       [desc |-> [fq |-> <<"namespace", "NDBInfo", <<"nodes_uptime_total">>>>, help |-> <<"The time since the node was last started, in seconds by node_id/status/start_phase.">>, labels |-> <<"node_id", "status", "start_phase">>],
        vtype |-> "GaugeValue", value |-> [k |-> "var", x |-> "uptime"],
        labels |-> <<[k |-> "var", x |-> "nodeID"], [k |-> "var", x |-> "status"], [k |-> "var", x |-> "startPhase"]>>],
       [desc |-> [fq |-> <<"namespace", "NDBInfo", <<"nodes_config_generation">>>>, help |-> <<"The version of the cluster configuration file in use by node_id/status/start_phase.">>, labels |-> <<"node_id", "status", "start_phase">>],
        vtype |-> "GaugeValue", value |-> [k |-> "var", x |-> "configGeneration"],
        labels |-> <<[k |-> "var", x |-> "nodeID"], [k |-> "var", x |-> "status"], [k |-> "var", x |-> "startPhase"]>>]>>]

ScrapeNDBInfoDiskPageBuffer ==
  [name |-> <<"NDBInfo", ".diskpagebuffer">>,
   version |-> 80,
   columns |-> <<
      [name |-> "node_id", nullable |-> TRUE, dflt |-> <<>>],
      [name |-> "block_instance", nullable |-> TRUE, dflt |-> <<>>],
      [name |-> "pages_written", nullable |-> TRUE, dflt |-> <<>>],
      [name |-> "pages_written_lcp", nullable |-> TRUE, dflt |-> <<>>],
      [name |-> "pages_read", nullable |-> TRUE, dflt |-> <<>>],
      [name |-> "log_waits", nullable |-> TRUE, dflt |-> <<>>],
      [name |-> "page_requests_direct_return", nullable |-> TRUE, dflt |-> <<>>],
      [name |-> "page_requests_wait_queue", nullable |-> TRUE, dflt |-> <<>>],
      [name |-> "page_requests_wait_io", nullable |-> TRUE, dflt |-> <<>>]>>,
   dests |-> <<"nodeID", "blockInstance", "pagesWritten", "pagesWrittenLCP", "pagesRead", "logWaits", "pageRequestsDirectReturn", "pageRequestsWaitQueue", "pageRequestsWaitIO">>,
   types |-> <<"string", "string", "uint64", "uint64", "uint64", "uint64", "uint64", "uint64", "uint64">>,
   dynamic |-> FALSE,
   errSends |-> <<>>,
   rowSends |-> <<
       [desc |-> [fq |-> <<"namespace", "NDBInfo", <<"diskpagebuffer_pages_written">>>>, help |-> <<"The amount of pages written to disk by node_id/block_instance.">>, labels |-> <<"node_id", "block_instance">>],
        vtype |-> "GaugeValue", value |-> [k |-> "var", x |-> "pagesWritten"],
        labels |-> <<[k |-> "var", x |-> "nodeID"], [k |-> "var", x |-> "blockInstance"]>>],
       [desc |-> [fq |-> <<"namespace", "NDBInfo", <<"diskpagebuffer_pages_written_lcp">>>>, help |-> <<"The amount of pages written by local checkpoints by node_id/block_instance.">>, labels |-> <<"node_id", "block_instance">>],
        vtype |-> "GaugeValue", value |-> [k |-> "var", x |-> "pagesWrittenLCP"],
        labels |-> <<[k |-> "var", x |-> "nodeID"], [k |-> "var", x |-> "blockInstance"]>>],
       [desc |-> [fq |-> <<"namespace", "NDBInfo", <<"diskpagebuffer_pages_read">>>>, help |-> <<"The amount of pages read from disk by node_id/block_instance.">>, labels |-> <<"node_id", "block_instance">>],
        vtype |-> "GaugeValue", value |-> [k |-> "var", x |-> "pagesRead"],
        labels |-> <<[k |-> "var", x |-> "nodeID"], [k |-> "var", x |-> "blockInstance"]>>],
       [desc |-> [fq |-> <<"namespace", "NDBInfo", <<"diskpagebuffer_log_waits">>>>, help |-> <<"The amount of page writes waiting for log to be written to disk by node_id/block_instance.">>, labels |-> <<"node_id", "block_instance">>],
        vtype |-> "GaugeValue", value |-> [k |-> "var", x |-> "logWaits"],
        labels |-> <<[k |-> "var", x |-> "nodeID"], [k |-> "var", x |-> "blockInstance"]>>],
       [desc |-> [fq |-> <<"namespace", "NDBInfo", <<"diskpagebuffer_page_requests_direct_return">>>>, help |-> <<"The amount of requests for pages that were available in buffer by node_id/block_instance.">>, labels |-> <<"node_id", "block_instance">>],
        vtype |-> "GaugeValue", value |-> [k |-> "var", x |-> "pageRequestsDirectReturn"],
        labels |-> <<[k |-> "var", x |-> "nodeID"], [k |-> "var", x |-> "blockInstance"]>>],
       [desc |-> [fq |-> <<"namespace", "NDBInfo", <<"diskpagebuffer_page_requests_wait_queue">>>>, help |-> <<"The amount of requests that had to wait for pages to become available in buffer by node_id/block_instance.">>, labels |-> <<"node_id", "block_instance">>],
        vtype |-> "GaugeValue", value |-> [k |-> "var", x |-> "pageRequestsWaitQueue"],
        labels |-> <<[k |-> "var", x |-> "nodeID"], [k |-> "var", x |-> "blockInstance"]>>],
       [desc |-> [fq |-> <<"namespace", "NDBInfo", <<"diskpagebuffer_page_requests_wait_io">>>>, help |-> <<"The amount of requests that had to be read from pages on disk (pages were unavailable in buffer) by node_id/block_instance.">>, labels |-> <<"node_id", "block_instance">>],
        vtype |-> "GaugeValue", value |-> [k |-> "var", x |-> "pageRequestsWaitIO"],
        labels |-> <<[k |-> "var", x |-> "nodeID"], [k |-> "var", x |-> "blockInstance"]>>]>>]

ScrapeNDBInfoOperationsPerFragment ==
  [name |-> <<"NDBInfo", ".operations_per_fragment">>,
   version |-> 80,
   columns |-> <<
      [name |-> "table_id", nullable |-> TRUE, dflt |-> <<>>],
      [name |-> "node_id", nullable |-> TRUE, dflt |-> <<>>],
      [name |-> "fragment_num", nullable |-> TRUE, dflt |-> <<>>],
      [name |-> "tot_key_reads", nullable |-> TRUE, dflt |-> <<>>],
      [name |-> "tot_key_inserts", nullable |-> TRUE, dflt |-> <<>>],
      [name |-> "tot_key_updates", nullable |-> TRUE, dflt |-> <<>>],
      [name |-> "tot_key_writes", nullable |-> TRUE, dflt |-> <<>>],
      [name |-> "tot_key_deletes", nullable |-> TRUE, dflt |-> <<>>],
      [name |-> "tot_key_refs", nullable |-> TRUE, dflt |-> <<>>],
      [name |-> "tot_key_attrinfo_bytes", nullable |-> TRUE, dflt |-> <<>>],
      [name |-> "tot_key_keyinfo_bytes", nullable |-> TRUE, dflt |-> <<>>],
      [name |-> "tot_key_prog_bytes", nullable |-> TRUE, dflt |-> <<>>],
      [name |-> "tot_key_inst_exec", nullable |-> TRUE, dflt |-> <<>>],
      [name |-> "tot_key_bytes_returned", nullable |-> TRUE, dflt |-> <<>>],
      [name |-> "tot_frag_scans", nullable |-> TRUE, dflt |-> <<>>],
      [name |-> "tot_scan_rows_examined", nullable |-> TRUE, dflt |-> <<>>],
      [name |-> "tot_scan_rows_returned", nullable |-> TRUE, dflt |-> <<>>],
      [name |-> "tot_scan_bytes_returned", nullable |-> TRUE, dflt |-> <<>>],
      [name |-> "tot_scan_prog_bytes", nullable |-> TRUE, dflt |-> <<>>],
      [name |-> "tot_scan_bound_bytes", nullable |-> TRUE, dflt |-> <<>>],
      [name |-> "tot_scan_inst_exec", nullable |-> TRUE, dflt |-> <<>>],
      [name |-> "tot_qd_frag_scans", nullable |-> TRUE, dflt |-> <<>>],
      [name |-> "conc_frag_scans", nullable |-> TRUE, dflt |-> <<>>],
      [name |-> "conc_qd_frag_scans", nullable |-> TRUE, dflt |-> <<>>],
      [name |-> "tot_commits", nullable |-> TRUE, dflt |-> <<>>]>>,
   dests |-> <<"tableID", "nodeID", "fragmentNum", "totKeyReads", "totKeyInserts", "totKeyUpdates", "totKeyWrites", "totKeyDeletes", "totKeyRefs", "totKeyAttrInfoBytes", "totKeyKeyInfoBytes", "totKeyProgBytes", "totKeyInstExec", "totKeyBytesReturned", "totFragScans", "totScanRowsExamined", "totScanRowsReturned", "totScanBytesReturned", "totScanProgBytes", "totScanBoundBytes", "totScanInstExec", "totQdFragScans", "concFragScans", "concQdFragScans", "totCommits">>,
   types |-> <<"string", "string", "string", "uint64", "uint64", "uint64", "uint64", "uint64", "uint64", "uint64", "uint64", "uint64", "uint64", "uint64", "uint64", "uint64", "uint64", "uint64", "uint64", "uint64", "uint64", "uint64", "uint64", "uint64", "uint64">>,
   dynamic |-> FALSE,
   errSends |-> <<>>,
   rowSends |-> <<
       [desc |-> [fq |-> <<"namespace", "NDBInfo", <<"operations_per_fragment_key_total">>>>, help |-> <<"The total number of key actions by table_id/node_id/fragment_num/action.">>, labels |-> <<"table_id", "node_id", "fragment_num", "action">>],
        vtype |-> "CounterValue", value |-> [k |-> "var", x |-> "totKeyReads"],
        labels |-> <<[k |-> "var", x |-> "tableID"], [k |-> "var", x |-> "nodeID"], [k |-> "var", x |-> "fragmentNum"], [k |-> "lit", x |-> "read"]>>],
       [desc |-> [fq |-> <<"namespace", "NDBInfo", <<"operations_per_fragment_key_total">>>>, help |-> <<"The total number of key actions by table_id/node_id/fragment_num/action.">>, labels |-> <<"table_id", "node_id", "fragment_num", "action">>],
        vtype |-> "CounterValue", value |-> [k |-> "var", x |-> "totKeyInserts"],
        labels |-> <<[k |-> "var", x |-> "tableID"], [k |-> "var", x |-> "nodeID"], [k |-> "var", x |-> "fragmentNum"], [k |-> "lit", x |-> "insert"]>>],
       [desc |-> [fq |-> <<"namespace", "NDBInfo", <<"operations_per_fragment_key_total">>>>, help |-> <<"The total number of key actions by table_id/node_id/fragment_num/action.">>, labels |-> <<"table_id", "node_id", "fragment_num", "action">>],
        vtype |-> "CounterValue", value |-> [k |-> "var", x |-> "totKeyUpdates"],
        labels |-> <<[k |-> "var", x |-> "tableID"], [k |-> "var", x |-> "nodeID"], [k |-> "var", x |-> "fragmentNum"], [k |-> "lit", x |-> "update"]>>],
       [desc |-> [fq |-> <<"namespace", "NDBInfo", <<"operations_per_fragment_key_total">>>>, help |-> <<"The total number of key actions by table_id/node_id/fragment_num/action.">>, labels |-> <<"table_id", "node_id", "fragment_num", "action">>],
        vtype |-> "CounterValue", value |-> [k |-> "var", x |-> "totKeyWrites"],
        labels |-> <<[k |-> "var", x |-> "tableID"], [k |-> "var", x |-> "nodeID"], [k |-> "var", x |-> "fragmentNum"], [k |-> "lit", x |-> "write"]>>],
       [desc |-> [fq |-> <<"namespace", "NDBInfo", <<"operations_per_fragment_key_total">>>>, help |-> <<"The total number of key actions by table_id/node_id/fragment_num/action.">>, labels |-> <<"table_id", "node_id", "fragment_num", "action">>],
        vtype |-> "CounterValue", value |-> [k |-> "var", x |-> "totKeyDeletes"],
        labels |-> <<[k |-> "var", x |-> "tableID"], [k |-> "var", x |-> "nodeID"], [k |-> "var", x |-> "fragmentNum"], [k |-> "lit", x |-> "delete"]>>],
       [desc |-> [fq |-> <<"namespace", "NDBInfo", <<"operations_per_fragment_key_total">>>>, help |-> <<"The total number of key actions by table_id/node_id/fragment_num/action.">>, labels |-> <<"table_id", "node_id", "fragment_num", "action">>],
        vtype |-> "CounterValue", value |-> [k |-> "var", x |-> "totKeyRefs"],
        labels |-> <<[k |-> "var", x |-> "tableID"], [k |-> "var", x |-> "nodeID"], [k |-> "var", x |-> "fragmentNum"], [k |-> "lit", x |-> "refs"]>>],
       [desc |-> [fq |-> <<"namespace", "NDBInfo", <<"operations_per_fragment_key_total">>>>, help |-> <<"The total number of key actions by table_id/node_id/fragment_num/action.">>, labels |-> <<"table_id", "node_id", "fragment_num", "action">>],
        vtype |-> "CounterValue", value |-> [k |-> "var", x |-> "totKeyInstExec"],
        labels |-> <<[k |-> "var", x |-> "tableID"], [k |-> "var", x |-> "nodeID"], [k |-> "var", x |-> "fragmentNum"], [k |-> "lit", x |-> "inst_exec"]>>],
       [desc |-> [fq |-> <<"namespace", "NDBInfo", <<"operations_per_fragment_key_bytes_total">>>>, help |-> <<"The total size of all action by table_id/node_id/fragment_num/action.">>, labels |-> <<"table_id", "node_id", "fragment_num", "action">>],
        vtype |-> "CounterValue", value |-> [k |-> "var", x |-> "totKeyBytesReturned"],
        labels |-> <<[k |-> "var", x |-> "tableID"], [k |-> "var", x |-> "nodeID"], [k |-> "var", x |-> "fragmentNum"], [k |-> "lit", x |-> "returned"]>>],
       [desc |-> [fq |-> <<"namespace", "NDBInfo", <<"operations_per_fragment_key_bytes_total">>>>, help |-> <<"The total size of all action by table_id/node_id/fragment_num/action.">>, labels |-> <<"table_id", "node_id", "fragment_num", "action">>],
        vtype |-> "CounterValue", value |-> [k |-> "var", x |-> "totKeyAttrInfoBytes"],
        labels |-> <<[k |-> "var", x |-> "tableID"], [k |-> "var", x |-> "nodeID"], [k |-> "var", x |-> "fragmentNum"], [k |-> "lit", x |-> "attrinfo"]>>],
       [desc |-> [fq |-> <<"namespace", "NDBInfo", <<"operations_per_fragment_key_bytes_total">>>>, help |-> <<"The total size of all action by table_id/node_id/fragment_num/action.">>, labels |-> <<"table_id", "node_id", "fragment_num", "action">>],
        vtype |-> "CounterValue", value |-> [k |-> "var", x |-> "totKeyKeyInfoBytes"],
        labels |-> <<[k |-> "var", x |-> "tableID"], [k |-> "var", x |-> "nodeID"], [k |-> "var", x |-> "fragmentNum"], [k |-> "lit", x |-> "keyinfo"]>>],
       [desc |-> [fq |-> <<"namespace", "NDBInfo", <<"operations_per_fragment_key_bytes_total">>>>, help |-> <<"The total size of all action by table_id/node_id/fragment_num/action.">>, labels |-> <<"table_id", "node_id", "fragment_num", "action">>],
        vtype |-> "CounterValue", value |-> [k |-> "var", x |-> "totKeyProgBytes"],
        labels |-> <<[k |-> "var", x |-> "tableID"], [k |-> "var", x |-> "nodeID"], [k |-> "var", x |-> "fragmentNum"], [k |-> "lit", x |-> "prog"]>>],
       [desc |-> [fq |-> <<"namespace", "NDBInfo", <<"operations_per_fragment_scans_total">>>>, help |-> <<"The total number of scans performed action by table_id/node_id/fragment_num/action.">>, labels |-> <<"table_id", "node_id", "fragment_num", "action">>],
        vtype |-> "CounterValue", value |-> [k |-> "var", x |-> "totFragScans"],
        labels |-> <<[k |-> "var", x |-> "tableID"], [k |-> "var", x |-> "nodeID"], [k |-> "var", x |-> "fragmentNum"], [k |-> "lit", x |-> "total"]>>],
       [desc |-> [fq |-> <<"namespace", "NDBInfo", <<"operations_per_fragment_scans_total">>>>, help |-> <<"The total number of scans performed action by table_id/node_id/fragment_num/action.">>, labels |-> <<"table_id", "node_id", "fragment_num", "action">>],
        vtype |-> "CounterValue", value |-> [k |-> "var", x |-> "totScanRowsExamined"],
        labels |-> <<[k |-> "var", x |-> "tableID"], [k |-> "var", x |-> "nodeID"], [k |-> "var", x |-> "fragmentNum"], [k |-> "lit", x |-> "rows_examined"]>>],
       [desc |-> [fq |-> <<"namespace", "NDBInfo", <<"operations_per_fragment_scans_total">>>>, help |-> <<"The total number of scans performed action by table_id/node_id/fragment_num/action.">>, labels |-> <<"table_id", "node_id", "fragment_num", "action">>],
        vtype |-> "CounterValue", value |-> [k |-> "var", x |-> "totScanRowsReturned"],
        labels |-> <<[k |-> "var", x |-> "tableID"], [k |-> "var", x |-> "nodeID"], [k |-> "var", x |-> "fragmentNum"], [k |-> "lit", x |-> "rows_returned"]>>],
       [desc |-> [fq |-> <<"namespace", "NDBInfo", <<"operations_per_fragment_scans_total">>>>, help |-> <<"The total number of scans performed action by table_id/node_id/fragment_num/action.">>, labels |-> <<"table_id", "node_id", "fragment_num", "action">>],
        vtype |-> "CounterValue", value |-> [k |-> "var", x |-> "totScanInstExec"],
        labels |-> <<[k |-> "var", x |-> "tableID"], [k |-> "var", x |-> "nodeID"], [k |-> "var", x |-> "fragmentNum"], [k |-> "lit", x |-> "inst_exec"]>>],
       [desc |-> [fq |-> <<"namespace", "NDBInfo", <<"operations_per_fragment_scans_total">>>>, help |-> <<"The total number of scans performed action by table_id/node_id/fragment_num/action.">>, labels |-> <<"table_id", "node_id", "fragment_num", "action">>],
        vtype |-> "CounterValue", value |-> [k |-> "var", x |-> "totQdFragScans"],
        labels |-> <<[k |-> "var", x |-> "tableID"], [k |-> "var", x |-> "nodeID"], [k |-> "var", x |-> "fragmentNum"], [k |-> "lit", x |-> "queued"]>>],
       [desc |-> [fq |-> <<"namespace", "NDBInfo", <<"operations_per_fragment_current_scans">>>>, help |-> <<"The number of non-queued/queued scans currently active by table_id/node_id/fragment_num/action.">>, labels |-> <<"table_id", "node_id", "fragment_num", "action">>],
        vtype |-> "GaugeValue", value |-> [k |-> "var", x |-> "concFragScans"],
        labels |-> <<[k |-> "var", x |-> "tableID"], [k |-> "var", x |-> "nodeID"], [k |-> "var", x |-> "fragmentNum"], [k |-> "lit", x |-> "conc"]>>],
       [desc |-> [fq |-> <<"namespace", "NDBInfo", <<"operations_per_fragment_current_scans">>>>, help |-> <<"The number of non-queued/queued scans currently active by table_id/node_id/fragment_num/action.">>, labels |-> <<"table_id", "node_id", "fragment_num", "action">>],
        vtype |-> "GaugeValue", value |-> [k |-> "var", x |-> "concQdFragScans"],
        labels |-> <<[k |-> "var", x |-> "tableID"], [k |-> "var", x |-> "nodeID"], [k |-> "var", x |-> "fragmentNum"], [k |-> "lit", x |-> "conc_qd"]>>],
       [desc |-> [fq |-> <<"namespace", "NDBInfo", <<"operations_per_fragment_scan_bytes_total">>>>, help |-> <<"The total size of data used in scan actions by table_id/node_id/fragment_num/action.">>, labels |-> <<"table_id", "node_id", "fragment_num", "action">>],
        vtype |-> "CounterValue", value |-> [k |-> "var", x |-> "totScanBytesReturned"],
        labels |-> <<[k |-> "var", x |-> "tableID"], [k |-> "var", x |-> "nodeID"], [k |-> "var", x |-> "fragmentNum"], [k |-> "lit", x |-> "total"]>>],
       [desc |-> [fq |-> <<"namespace", "NDBInfo", <<"operations_per_fragment_scan_bytes_total">>>>, help |-> <<"The total size of data used in scan actions by table_id/node_id/fragment_num/action.">>, labels |-> <<"table_id", "node_id", "fragment_num", "action">>],
        vtype |-> "CounterValue", value |-> [k |-> "var", x |-> "totScanProgBytes"],
        labels |-> <<[k |-> "var", x |-> "tableID"], [k |-> "var", x |-> "nodeID"], [k |-> "var", x |-> "fragmentNum"], [k |-> "lit", x |-> "prog"]>>],
       [desc |-> [fq |-> <<"namespace", "NDBInfo", <<"operations_per_fragment_scan_bytes_total">>>>, help |-> <<"The total size of data used in scan actions by table_id/node_id/fragment_num/action.">>, labels |-> <<"table_id", "node_id", "fragment_num", "action">>],
        vtype |-> "CounterValue", value |-> [k |-> "var", x |-> "totScanBoundBytes"],
        labels |-> <<[k |-> "var", x |-> "tableID"], [k |-> "var", x |-> "nodeID"], [k |-> "var", x |-> "fragmentNum"], [k |-> "lit", x |-> "bound"]>>],
       [desc |-> [fq |-> <<"namespace", "NDBInfo", <<"operations_per_fragment_commits_total">>>>, help |-> <<"The total number of row changes committed by table_id/node_id/fragment_num.">>, labels |-> <<"table_id", "node_id", "fragment_num">>],
        vtype |-> "CounterValue", value |-> [k |-> "var", x |-> "totCommits"],
        labels |-> <<[k |-> "var", x |-> "tableID"], [k |-> "var", x |-> "nodeID"], [k |-> "var", x |-> "fragmentNum"]>>]>>]

ScrapeNDBInfoResources ==
  [name |-> <<"NDBInfo", ".resources">>,
   version |-> 80,
   columns |-> <<
      [name |-> "node_id", nullable |-> TRUE, dflt |-> <<>>],
      [name |-> "resource_name", nullable |-> TRUE, dflt |-> <<>>],
      [name |-> "reserved", nullable |-> TRUE, dflt |-> <<>>],
      [name |-> "used", nullable |-> TRUE, dflt |-> <<>>],
      [name |-> "max", nullable |-> TRUE, dflt |-> <<>>],
      [name |-> "spare", nullable |-> TRUE, dflt |-> <<>>]>>,
   dests |-> <<"nodeID", "resourceName", "reserved", "used", "pagesMax", "spare">>,
   types |-> <<"string", "string", "uint64", "uint64", "uint64", "uint64">>,
   dynamic |-> FALSE,
   errSends |-> <<>>,
   rowSends |-> <<
       [desc |-> [fq |-> <<"namespace", "NDBInfo", <<"resources">>>>, help |-> <<"The amount, as a number of 32KB pages by node_id/resource_name/type.">>, labels |-> <<"node_id", "resource_name", "type">>],
        vtype |-> "GaugeValue", value |-> [k |-> "var", x |-> "reserved"],
        labels |-> <<[k |-> "var", x |-> "nodeID"], [k |-> "var", x |-> "resourceName"], [k |-> "lit", x |-> "reserved"]>>],
       [desc |-> [fq |-> <<"namespace", "NDBInfo", <<"resources">>>>, help |-> <<"The amount, as a number of 32KB pages by node_id/resource_name/type.">>, labels |-> <<"node_id", "resource_name", "type">>],
        vtype |-> "GaugeValue", value |-> [k |-> "var", x |-> "used"],
        labels |-> <<[k |-> "var", x |-> "nodeID"], [k |-> "var", x |-> "resourceName"], [k |-> "lit", x |-> "used"]>>],
       [desc |-> [fq |-> <<"namespace", "NDBInfo", <<"resources">>>>, help |-> <<"The amount, as a number of 32KB pages by node_id/resource_name/type.">>, labels |-> <<"node_id", "resource_name", "type">>],
        vtype |-> "GaugeValue", value |-> [k |-> "var", x |-> "pagesMax"],
        labels |-> <<[k |-> "var", x |-> "nodeID"], [k |-> "var", x |-> "resourceName"], [k |-> "lit", x |-> "max"]>>],
       [desc |-> [fq |-> <<"namespace", "NDBInfo", <<"resources">>>>, help |-> <<"The amount, as a number of 32KB pages by node_id/resource_name/type.">>, labels |-> <<"node_id", "resource_name", "type">>],
        vtype |-> "GaugeValue", value |-> [k |-> "var", x |-> "spare"],
        labels |-> <<[k |-> "var", x |-> "nodeID"], [k |-> "var", x |-> "resourceName"], [k |-> "lit", x |-> "spare"]>>]>>]

ScrapeNDBInfoTransporterDetails ==
  [name |-> <<"NDBInfo", ".transporter_details">>,
   version |-> 84,
   columns |-> <<
      [name |-> "node_id", nullable |-> TRUE, dflt |-> <<>>],
      [name |-> "trp_id", nullable |-> TRUE, dflt |-> <<>>],
      [name |-> "remote_node_id", nullable |-> TRUE, dflt |-> <<>>],
      [name |-> "status", nullable |-> TRUE, dflt |-> <<>>],
      [name |-> "remote_address", nullable |-> TRUE, dflt |-> <<>>],
      [name |-> "bytes_sent", nullable |-> TRUE, dflt |-> <<>>],
      [name |-> "bytes_received", nullable |-> TRUE, dflt |-> <<>>],
      [name |-> "connect_count", nullable |-> TRUE, dflt |-> <<>>],
      [name |-> "overloaded", nullable |-> TRUE, dflt |-> <<>>],
      [name |-> "overload_count", nullable |-> TRUE, dflt |-> <<>>],
      [name |-> "slowdown", nullable |-> TRUE, dflt |-> <<>>],
      [name |-> "slowdown_count", nullable |-> TRUE, dflt |-> <<>>],
      [name |-> "encrypted", nullable |-> TRUE, dflt |-> <<>>],
      [name |-> "sendbuffer_used_bytes", nullable |-> TRUE, dflt |-> <<>>],
      [name |-> "sendbuffer_max_used_bytes", nullable |-> TRUE, dflt |-> <<>>],
      [name |-> "sendbuffer_alloc_bytes", nullable |-> TRUE, dflt |-> <<>>],
      [name |-> "sendbuffer_max_alloc_bytes", nullable |-> TRUE, dflt |-> <<>>],
      [name |-> "type", nullable |-> TRUE, dflt |-> <<>>]>>,
   dests |-> <<"nodeID", "remoteNodeID", "trpID", "status", "remoteAddress", "bytesSent", "bytesReceived", "connectCount", "overloaded", "overloadCount", "slowdown", "slowdownCount", "encrypted", "sendBufferUsedBytes", "sendBufferMaxUsedBytes", "sendBufferAllocBytes", "sendBufferMaxAllocBytes", "connectionType">>,
   types |-> <<"string", "string", "string", "string", "string", "uint64", "uint64", "uint64", "uint64", "uint64", "uint64", "uint64", "uint64", "uint64", "uint64", "uint64", "uint64", "string">>,
   dynamic |-> FALSE,
   errSends |-> <<>>,
   rowSends |-> <<
       [desc |-> [fq |-> <<"namespace", "NDBInfo", <<"transporter_details_bytes_total">>>>, help |-> <<"The total amount of bytes sent/received using this connection by node_id/trp_id/remote_node_id/status/remote_address/type/action.">>, labels |-> <<"node_id", "trp_id", "remote_node_id", "status", "remote_address", "type", "action">>],
        vtype |-> "CounterValue", value |-> [k |-> "var", x |-> "bytesSent"],
        labels |-> <<[k |-> "var", x |-> "nodeID"], [k |-> "var", x |-> "trpID"], [k |-> "var", x |-> "remoteNodeID"], [k |-> "var", x |-> "status"], [k |-> "var", x |-> "remoteAddress"], [k |-> "var", x |-> "connectionType"], [k |-> "lit", x |-> "sent"]>>],
       [desc |-> [fq |-> <<"namespace", "NDBInfo", <<"transporter_details_bytes_total">>>>, help |-> <<"The total amount of bytes sent/received using this connection by node_id/trp_id/remote_node_id/status/remote_address/type/action.">>, labels |-> <<"node_id", "trp_id", "remote_node_id", "status", "remote_address", "type", "action">>],
        vtype |-> "CounterValue", value |-> [k |-> "var", x |-> "bytesReceived"],
        labels |-> <<[k |-> "var", x |-> "nodeID"], [k |-> "var", x |-> "trpID"], [k |-> "var", x |-> "remoteNodeID"], [k |-> "var", x |-> "status"], [k |-> "var", x |-> "remoteAddress"], [k |-> "var", x |-> "connectionType"], [k |-> "lit", x |-> "received"]>>],
       [desc |-> [fq |-> <<"namespace", "NDBInfo", <<"transporter_details_count_total">>>>, help |-> <<"The total amount of times action has happened on this transporter by node_id/trp_id/remote_node_id/status/remote_address/type/action.">>, labels |-> <<"node_id", "trp_id", "remote_node_id", "status", "remote_address", "type", "action">>],
        vtype |-> "CounterValue", value |-> [k |-> "var", x |-> "connectCount"],
        labels |-> <<[k |-> "var", x |-> "nodeID"], [k |-> "var", x |-> "trpID"], [k |-> "var", x |-> "remoteNodeID"], [k |-> "var", x |-> "status"], [k |-> "var", x |-> "remoteAddress"], [k |-> "var", x |-> "connectionType"], [k |-> "lit", x |-> "connect"]>>],
       [desc |-> [fq |-> <<"namespace", "NDBInfo", <<"transporter_details_state">>>>, help |-> <<"Whether transporter has state (1) or not (0) by node_id/trp_id/remote_node_id/status/remote_address/type/state.">>, labels |-> <<"node_id", "trp_id", "remote_node_id", "status", "remote_address", "type", "state">>],
        vtype |-> "GaugeValue", value |-> [k |-> "var", x |-> "overloaded"],
        labels |-> <<[k |-> "var", x |-> "nodeID"], [k |-> "var", x |-> "trpID"], [k |-> "var", x |-> "remoteNodeID"], [k |-> "var", x |-> "status"], [k |-> "var", x |-> "remoteAddress"], [k |-> "var", x |-> "connectionType"], [k |-> "lit", x |-> "overload"]>>],
       [desc |-> [fq |-> <<"namespace", "NDBInfo", <<"transporter_details_count_total">>>>, help |-> <<"The total amount of times action has happened on this transporter by node_id/trp_id/remote_node_id/status/remote_address/type/action.">>, labels |-> <<"node_id", "trp_id", "remote_node_id", "status", "remote_address", "type", "action">>],
        vtype |-> "CounterValue", value |-> [k |-> "var", x |-> "overloadCount"],
        labels |-> <<[k |-> "var", x |-> "nodeID"], [k |-> "var", x |-> "trpID"], [k |-> "var", x |-> "remoteNodeID"], [k |-> "var", x |-> "status"], [k |-> "var", x |-> "remoteAddress"], [k |-> "var", x |-> "connectionType"], [k |-> "lit", x |-> "overload"]>>],
       [desc |-> [fq |-> <<"namespace", "NDBInfo", <<"transporter_details_state">>>>, help |-> <<"Whether transporter has state (1) or not (0) by node_id/trp_id/remote_node_id/status/remote_address/type/state.">>, labels |-> <<"node_id", "trp_id", "remote_node_id", "status", "remote_address", "type", "state">>],
        vtype |-> "GaugeValue", value |-> [k |-> "var", x |-> "slowdown"],
        labels |-> <<[k |-> "var", x |-> "nodeID"], [k |-> "var", x |-> "trpID"], [k |-> "var", x |-> "remoteNodeID"], [k |-> "var", x |-> "status"], [k |-> "var", x |-> "remoteAddress"], [k |-> "var", x |-> "connectionType"], [k |-> "lit", x |-> "slowdown"]>>],
       [desc |-> [fq |-> <<"namespace", "NDBInfo", <<"transporter_details_count_total">>>>, help |-> <<"The total amount of times action has happened on this transporter by node_id/trp_id/remote_node_id/status/remote_address/type/action.">>, labels |-> <<"node_id", "trp_id", "remote_node_id", "status", "remote_address", "type", "action">>],
        vtype |-> "CounterValue", value |-> [k |-> "var", x |-> "slowdownCount"],
        labels |-> <<[k |-> "var", x |-> "nodeID"], [k |-> "var", x |-> "trpID"], [k |-> "var", x |-> "remoteNodeID"], [k |-> "var", x |-> "status"], [k |-> "var", x |-> "remoteAddress"], [k |-> "var", x |-> "connectionType"], [k |-> "lit", x |-> "slowdown"]>>],
       [desc |-> [fq |-> <<"namespace", "NDBInfo", <<"transporter_details_state">>>>, help |-> <<"Whether transporter has state (1) or not (0) by node_id/trp_id/remote_node_id/status/remote_address/type/state.">>, labels |-> <<"node_id", "trp_id", "remote_node_id", "status", "remote_address", "type", "state">>],
        vtype |-> "GaugeValue", value |-> [k |-> "var", x |-> "encrypted"],
        labels |-> <<[k |-> "var", x |-> "nodeID"], [k |-> "var", x |-> "trpID"], [k |-> "var", x |-> "remoteNodeID"], [k |-> "var", x |-> "status"], [k |-> "var", x |-> "remoteAddress"], [k |-> "var", x |-> "connectionType"], [k |-> "lit", x |-> "encrypted"]>>],
       [desc |-> [fq |-> <<"namespace", "NDBInfo", <<"transporter_details_sendbuffer_bytes">>>>, help |-> <<"The amount of bytes for the action by this transporter by node_id/trp_id/remote_node_id/status/remote_address/type/action.">>, labels |-> <<"node_id", "trp_id", "remote_node_id", "status", "remote_address", "type", "action">>],
        vtype |-> "GaugeValue", value |-> [k |-> "var", x |-> "sendBufferUsedBytes"],
        labels |-> <<[k |-> "var", x |-> "nodeID"], [k |-> "var", x |-> "trpID"], [k |-> "var", x |-> "remoteNodeID"], [k |-> "var", x |-> "status"], [k |-> "var", x |-> "remoteAddress"], [k |-> "var", x |-> "connectionType"], [k |-> "lit", x |-> "used"]>>],
       [desc |-> [fq |-> <<"namespace", "NDBInfo", <<"transporter_details_sendbuffer_bytes">>>>, help |-> <<"The amount of bytes for the action by this transporter by node_id/trp_id/remote_node_id/status/remote_address/type/action.">>, labels |-> <<"node_id", "trp_id", "remote_node_id", "status", "remote_address", "type", "action">>],
        vtype |-> "GaugeValue", value |-> [k |-> "var", x |-> "sendBufferMaxUsedBytes"],
        labels |-> <<[k |-> "var", x |-> "nodeID"], [k |-> "var", x |-> "trpID"], [k |-> "var", x |-> "remoteNodeID"], [k |-> "var", x |-> "status"], [k |-> "var", x |-> "remoteAddress"], [k |-> "var", x |-> "connectionType"], [k |-> "lit", x |-> "max_used"]>>],
       [desc |-> [fq |-> <<"namespace", "NDBInfo", <<"transporter_details_sendbuffer_bytes">>>>, help |-> <<"The amount of bytes for the action by this transporter by node_id/trp_id/remote_node_id/status/remote_address/type/action.">>, labels |-> <<"node_id", "trp_id", "remote_node_id", "status", "remote_address", "type", "action">>],
        vtype |-> "GaugeValue", value |-> [k |-> "var", x |-> "sendBufferAllocBytes"],
        labels |-> <<[k |-> "var", x |-> "nodeID"], [k |-> "var", x |-> "trpID"], [k |-> "var", x |-> "remoteNodeID"], [k |-> "var", x |-> "status"], [k |-> "var", x |-> "remoteAddress"], [k |-> "var", x |-> "connectionType"], [k |-> "lit", x |-> "alloc"]>>],
       [desc |-> [fq |-> <<"namespace", "NDBInfo", <<"transporter_details_sendbuffer_bytes">>>>, help |-> <<"The amount of bytes for the action by this transporter by node_id/trp_id/remote_node_id/status/remote_address/type/action.">>, labels |-> <<"node_id", "trp_id", "remote_node_id", "status", "remote_address", "type", "action">>],
        vtype |-> "GaugeValue", value |-> [k |-> "var", x |-> "sendBufferMaxAllocBytes"],
        labels |-> <<[k |-> "var", x |-> "nodeID"], [k |-> "var", x |-> "trpID"], [k |-> "var", x |-> "remoteNodeID"], [k |-> "var", x |-> "status"], [k |-> "var", x |-> "remoteAddress"], [k |-> "var", x |-> "connectionType"], [k |-> "lit", x |-> "max_alloc"]>>]>>]

ScrapeNDBInfoClusterTransactions ==
  [name |-> <<"NDBInfo", ".cluster_transactions">>,
   version |-> 80,
   columns |-> <<
      [name |-> "node_id", nullable |-> TRUE, dflt |-> <<>>],
      [name |-> "state", nullable |-> TRUE, dflt |-> <<>>],
      [name |-> "total_count_operations", nullable |-> TRUE, dflt |-> <<>>],
      [name |-> "total_outstanding_operations", nullable |-> TRUE, dflt |-> <<>>],
      [name |-> "max_inactive_seconds", nullable |-> TRUE, dflt |-> <<>>],
      [name |-> "client_node_id", nullable |-> TRUE, dflt |-> <<>>],
      [name |-> "total_transactions", nullable |-> FALSE, dflt |-> <<>>]>>,
   dests |-> <<"nodeID", "state", "totalCountOperations", "totalOutstandingOperations", "maxInactiveSeconds", "clientNodeID", "totalTransactions">>,
   types |-> <<"string", "string", "uint64", "uint64", "uint64", "string", "uint64">>,
   dynamic |-> FALSE,
   errSends |-> <<>>,
   rowSends |-> <<
       [desc |-> [fq |-> <<"namespace", "NDBInfo", <<"cluster_transactions_total_count_operations">>>>, help |-> <<"The amount of stateful primary key operations in transaction (includes reads with locks, as well as DML operations) by node_id/state/client_node_id.">>, labels |-> <<"node_id", "state", "client_node_id">>],
        vtype |-> "GaugeValue", value |-> [k |-> "var", x |-> "totalCountOperations"],
        labels |-> <<[k |-> "var", x |-> "nodeID"], [k |-> "var", x |-> "state"], [k |-> "var", x |-> "clientNodeID"]>>],
       [desc |-> [fq |-> <<"namespace", "NDBInfo", <<"cluster_transactions_total_outstanding_operations">>>>, help |-> <<"The amount of operations still being executed in local data management blocks by node_id/state/client_node_id.">>, labels |-> <<"node_id", "state", "client_node_id">>],
        vtype |-> "GaugeValue", value |-> [k |-> "var", x |-> "totalOutstandingOperations"],
        labels |-> <<[k |-> "var", x |-> "nodeID"], [k |-> "var", x |-> "state"], [k |-> "var", x |-> "clientNodeID"]>>],
       [desc |-> [fq |-> <<"namespace", "NDBInfo", <<"cluster_transactions_max_inactive_seconds">>>>, help |-> <<"The maximum inactivity seconds by node_id/state/client_node_id.">>, labels |-> <<"node_id", "state", "client_node_id">>],
        vtype |-> "GaugeValue", value |-> [k |-> "var", x |-> "maxInactiveSeconds"],
        labels |-> <<[k |-> "var", x |-> "nodeID"], [k |-> "var", x |-> "state"], [k |-> "var", x |-> "clientNodeID"]>>],
       [desc |-> [fq |-> <<"namespace", "NDBInfo", <<"cluster_transactions_total_transactions">>>>, help |-> <<"The total amount of transactions by node_id/state/client_node_id.">>, labels |-> <<"node_id", "state", "client_node_id">>],
        vtype |-> "GaugeValue", value |-> [k |-> "var", x |-> "totalTransactions"],
        labels |-> <<[k |-> "var", x |-> "nodeID"], [k |-> "var", x |-> "state"], [k |-> "var", x |-> "clientNodeID"]>>]>>]

\* ScrapeNDBInfoServerLocks with the last label value of its metric left out.
ScrapeNDBInfoServerLocksShortLabels ==
  [name |-> <<"NDBInfo", ".server_locks">>,
   version |-> 80,
   columns |-> <<
      [name |-> "mysql_connection_id", nullable |-> TRUE, dflt |-> <<>>],
      [name |-> "node_id", nullable |-> TRUE, dflt |-> <<>>],
      [name |-> "tableid", nullable |-> TRUE, dflt |-> <<>>],
      [name |-> "fragmentid", nullable |-> TRUE, dflt |-> <<>>],
      [name |-> "rowid", nullable |-> TRUE, dflt |-> <<>>],
      [name |-> "mode", nullable |-> TRUE, dflt |-> <<>>],
      [name |-> "state", nullable |-> TRUE, dflt |-> <<>>],
      [name |-> "detail", nullable |-> TRUE, dflt |-> <<>>],
      [name |-> "op", nullable |-> TRUE, dflt |-> <<>>],
      [name |-> "duration_millis", nullable |-> TRUE, dflt |-> <<>>],
      [name |-> "lock_num", nullable |-> TRUE, dflt |-> <<>>],
      [name |-> "waiting_for", nullable |-> TRUE, dflt |-> <<StrVal("")>>]>>,
   dests |-> <<"mysqlConnectionID", "nodeID", "tableID", "fragmentID", "rowID", "mode", "state", "detail", "op", "durationMillis", "lockNum", "waitingFor">>,
   types |-> <<"string", "string", "string", "string", "string", "string", "string", "string", "string", "uint64", "string", "string">>,
   dynamic |-> FALSE,
   errSends |-> <<>>,
   rowSends |-> <<
       [desc |-> [fq |-> <<"namespace", "NDBInfo", <<"server_locks_duration_millis">>>>, help |-> <<"The amount of time spent waiting or holding lock in milliseconds by mysql_connection_id/node_id/tableid/fragmentid/rowid/mode/state/detail/op/lock_num/waiting_for.">>, labels |-> <<"mysql_connection_id", "node_id", "tableid", "fragmentid", "rowid", "mode", "state", "detail", "op", "lock_num", "waiting_for">>],
        vtype |-> "GaugeValue", value |-> [k |-> "var", x |-> "durationMillis"],
        labels |-> <<[k |-> "var", x |-> "mysqlConnectionID"], [k |-> "var", x |-> "nodeID"], [k |-> "var", x |-> "tableID"], [k |-> "var", x |-> "fragmentID"], [k |-> "var", x |-> "rowID"], [k |-> "var", x |-> "mode"], [k |-> "var", x |-> "state"], [k |-> "var", x |-> "detail"], [k |-> "var", x |-> "op"], [k |-> "var", x |-> "lockNum"]>>]>>]

ScrapeNDBInfoServerLocks ==
  [name |-> <<"NDBInfo", ".server_locks">>,
   version |-> 80,
   columns |-> <<
      [name |-> "mysql_connection_id", nullable |-> TRUE, dflt |-> <<>>],
      [name |-> "node_id", nullable |-> TRUE, dflt |-> <<>>],
      [name |-> "tableid", nullable |-> TRUE, dflt |-> <<>>],
      [name |-> "fragmentid", nullable |-> TRUE, dflt |-> <<>>],
      [name |-> "rowid", nullable |-> TRUE, dflt |-> <<>>],
      [name |-> "mode", nullable |-> TRUE, dflt |-> <<>>],
      [name |-> "state", nullable |-> TRUE, dflt |-> <<>>],
      [name |-> "detail", nullable |-> TRUE, dflt |-> <<>>],
      [name |-> "op", nullable |-> TRUE, dflt |-> <<>>],
      [name |-> "duration_millis", nullable |-> TRUE, dflt |-> <<>>],
      [name |-> "lock_num", nullable |-> TRUE, dflt |-> <<>>],
      [name |-> "waiting_for", nullable |-> TRUE, dflt |-> <<StrVal("")>>]>>,
   dests |-> <<"mysqlConnectionID", "nodeID", "tableID", "fragmentID", "rowID", "mode", "state", "detail", "op", "durationMillis", "lockNum", "waitingFor">>,
   types |-> <<"string", "string", "string", "string", "string", "string", "string", "string", "string", "uint64", "string", "string">>,
   dynamic |-> FALSE,
   errSends |-> <<>>,
   rowSends |-> <<
       [desc |-> [fq |-> <<"namespace", "NDBInfo", <<"server_locks_duration_millis">>>>, help |-> <<"The amount of time spent waiting or holding lock in milliseconds by mysql_connection_id/node_id/tableid/fragmentid/rowid/mode/state/detail/op/lock_num/waiting_for.">>, labels |-> <<"mysql_connection_id", "node_id", "tableid", "fragmentid", "rowid", "mode", "state", "detail", "op", "lock_num", "waiting_for">>],
        vtype |-> "GaugeValue", value |-> [k |-> "var", x |-> "durationMillis"],
        labels |-> <<[k |-> "var", x |-> "mysqlConnectionID"], [k |-> "var", x |-> "nodeID"], [k |-> "var", x |-> "tableID"], [k |-> "var", x |-> "fragmentID"], [k |-> "var", x |-> "rowID"], [k |-> "var", x |-> "mode"], [k |-> "var", x |-> "state"], [k |-> "var", x |-> "detail"], [k |-> "var", x |-> "op"], [k |-> "var", x |-> "lockNum"], [k |-> "var", x |-> "waitingFor"]>>]>>]

ScrapeNDBInfoCPUInfo ==
  [name |-> <<"NDBInfo", ".cpuinfo">>,
   version |-> 80,
   columns |-> <<
      [name |-> "node_id", nullable |-> TRUE, dflt |-> <<>>],
      [name |-> "cpu_no", nullable |-> TRUE, dflt |-> <<>>],
      [name |-> "cpu_online", nullable |-> TRUE, dflt |-> <<>>],
      [name |-> "core_id", nullable |-> TRUE, dflt |-> <<>>],
      [name |-> "socket_id", nullable |-> TRUE, dflt |-> <<>>]>>,
   dests |-> <<"nodeID", "cpuNo", "cpuOnline", "coreId", "socketID">>,
   types |-> <<"string", "string", "uint64", "string", "string">>,
   dynamic |-> FALSE,
   errSends |-> <<>>,
   rowSends |-> <<
       [desc |-> [fq |-> <<"namespace", "NDBInfo", <<"cpuinfo_cpu_online">>>>, help |-> <<"The status of CPU by node_id/cpu_no/core_id/socket_id. 1 if the CPU is online, otherwise 0 .">>, labels |-> <<"node_id", "cpu_no", "core_id", "socket_id">>],
        vtype |-> "GaugeValue", value |-> [k |-> "var", x |-> "cpuOnline"],
        labels |-> <<[k |-> "var", x |-> "nodeID"], [k |-> "var", x |-> "cpuNo"], [k |-> "var", x |-> "coreId"], [k |-> "var", x |-> "socketID"]>>]>>]

ScrapeNDBInfoServerOperations ==
  [name |-> <<"NDBInfo", ".server_operations">>,
   version |-> 80,
   columns |-> <<
      [name |-> "node_id", nullable |-> TRUE, dflt |-> <<>>],
      [name |-> "block_instance", nullable |-> TRUE, dflt |-> <<>>],
      [name |-> "operation_type", nullable |-> TRUE, dflt |-> <<>>],
      [name |-> "state", nullable |-> TRUE, dflt |-> <<StrVal("")>>],
      [name |-> "tableid", nullable |-> TRUE, dflt |-> <<>>],
      [name |-> "fragmentid", nullable |-> TRUE, dflt |-> <<>>],
      [name |-> "client_node_id", nullable |-> TRUE, dflt |-> <<>>],
      [name |-> "tc_node_id", nullable |-> TRUE, dflt |-> <<>>],
      [name |-> "tc_block_no", nullable |-> TRUE, dflt |-> <<>>],
      [name |-> "tc_block_instance", nullable |-> TRUE, dflt |-> <<>>],
      [name |-> "current_ops", nullable |-> FALSE, dflt |-> <<>>]>>,
   dests |-> <<"nodeID", "blockInstance", "operationType", "state", "tableID", "fragmentID", "clientNodeID", "tcNodeID", "tcBlockNo", "tcBlockInstance", "currentOps">>,
   types |-> <<"string", "string", "string", "string", "string", "string", "string", "string", "string", "string", "uint64">>,
   dynamic |-> FALSE,
   errSends |-> <<>>,
   rowSends |-> <<
       [desc |-> [fq |-> <<"namespace", "NDBInfo", <<"server_operations_current">>>>, help |-> <<"The amount of current server operations by node_id/block_instance/operation_type/state/tableid/fragmentid/client_node_id/tc_node_id/tc_block_no/tc_block_instance.">>, labels |-> <<"node_id", "block_instance", "operation_type", "state", "tableid", "fragmentid", "client_node_id", "tc_node_id", "tc_block_no", "tc_block_instance">>],
        vtype |-> "GaugeValue", value |-> [k |-> "var", x |-> "currentOps"],
        labels |-> <<[k |-> "var", x |-> "nodeID"], [k |-> "var", x |-> "blockInstance"], [k |-> "var", x |-> "operationType"], [k |-> "var", x |-> "state"], [k |-> "var", x |-> "tableID"], [k |-> "var", x |-> "fragmentID"], [k |-> "var", x |-> "clientNodeID"], [k |-> "var", x |-> "tcNodeID"], [k |-> "var", x |-> "tcBlockNo"], [k |-> "var", x |-> "tcBlockInstance"]>>]>>]

ScrapeNDBInfoServerTransactions ==
  [name |-> <<"NDBInfo", ".server_transactions">>,
   version |-> 80,
   columns |-> <<
      [name |-> "node_id", nullable |-> TRUE, dflt |-> <<>>],
      [name |-> "state", nullable |-> TRUE, dflt |-> <<>>],
      [name |-> "total_count_operations", nullable |-> TRUE, dflt |-> <<>>],
      [name |-> "total_outstanding_operations", nullable |-> TRUE, dflt |-> <<>>],
      [name |-> "max_inactive_seconds", nullable |-> TRUE, dflt |-> <<>>],
      [name |-> "client_node_id", nullable |-> TRUE, dflt |-> <<>>],
      [name |-> "total_transactions", nullable |-> FALSE, dflt |-> <<>>]>>,
   dests |-> <<"nodeID", "state", "totalCountOperations", "totalOutstandingOperations", "maxInactiveSeconds", "clientNodeID", "totalTransactions">>,
   types |-> <<"string", "string", "uint64", "uint64", "uint64", "string", "uint64">>,
   dynamic |-> FALSE,
   errSends |-> <<>>,
   rowSends |-> <<
       [desc |-> [fq |-> <<"namespace", "NDBInfo", <<"server_transactions_total">>>>, help |-> <<"The total amount of operations by node_id/state/client_node_id/action.">>, labels |-> <<"node_id", "state", "client_node_id", "action">>],
        vtype |-> "GaugeValue", value |-> [k |-> "var", x |-> "totalCountOperations"],
        labels |-> <<[k |-> "var", x |-> "nodeID"], [k |-> "var", x |-> "state"], [k |-> "var", x |-> "clientNodeID"], [k |-> "lit", x |-> "count"]>>],
       [desc |-> [fq |-> <<"namespace", "NDBInfo", <<"server_transactions_total">>>>, help |-> <<"The total amount of operations by node_id/state/client_node_id/action.">>, labels |-> <<"node_id", "state", "client_node_id", "action">>],
        vtype |-> "GaugeValue", value |-> [k |-> "var", x |-> "totalOutstandingOperations"],
        labels |-> <<[k |-> "var", x |-> "nodeID"], [k |-> "var", x |-> "state"], [k |-> "var", x |-> "clientNodeID"], [k |-> "lit", x |-> "outstanding"]>>],
       [desc |-> [fq |-> <<"namespace", "NDBInfo", <<"server_transactions_total">>>>, help |-> <<"The total amount of operations by node_id/state/client_node_id/action.">>, labels |-> <<"node_id", "state", "client_node_id", "action">>],
        vtype |-> "GaugeValue", value |-> [k |-> "var", x |-> "totalTransactions"],
        labels |-> <<[k |-> "var", x |-> "nodeID"], [k |-> "var", x |-> "state"], [k |-> "var", x |-> "clientNodeID"], [k |-> "lit", x |-> "transactions"]>>],
       [desc |-> [fq |-> <<"namespace", "NDBInfo", <<"server_transactions_max_inactive_seconds">>>>, help |-> <<"The maximum inactivity seconds by node_id/state/client_node_id.">>, labels |-> <<"node_id", "state", "client_node_id">>],
        vtype |-> "GaugeValue", value |-> [k |-> "var", x |-> "maxInactiveSeconds"],
        labels |-> <<[k |-> "var", x |-> "nodeID"], [k |-> "var", x |-> "state"], [k |-> "var", x |-> "clientNodeID"]>>]>>]

ScrapeNDBInfoTableFragments ==
  [name |-> <<"NDBInfo", ".table_fragments">>,
   version |-> 80,
   columns |-> <<
      [name |-> "node_id", nullable |-> TRUE, dflt |-> <<>>],
      [name |-> "table_id", nullable |-> TRUE, dflt |-> <<>>],
      [name |-> "partition_id", nullable |-> TRUE, dflt |-> <<>>],
      [name |-> "fragment_id", nullable |-> TRUE, dflt |-> <<>>],
      [name |-> "partition_order", nullable |-> TRUE, dflt |-> <<>>],
      [name |-> "log_part_id", nullable |-> TRUE, dflt |-> <<>>],
      [name |-> "no_of_replicas", nullable |-> TRUE, dflt |-> <<>>],
      [name |-> "current_primary", nullable |-> TRUE, dflt |-> <<>>],
      [name |-> "preferred_primary", nullable |-> TRUE, dflt |-> <<>>],
      [name |-> "current_first_backup", nullable |-> TRUE, dflt |-> <<>>],
      [name |-> "current_second_backup", nullable |-> TRUE, dflt |-> <<>>],
      [name |-> "current_third_backup", nullable |-> TRUE, dflt |-> <<>>],
      [name |-> "num_alive_replicas", nullable |-> TRUE, dflt |-> <<>>],
      [name |-> "num_dead_replicas", nullable |-> TRUE, dflt |-> <<>>],
      [name |-> "num_lcp_replicas", nullable |-> TRUE, dflt |-> <<>>]>>,
   dests |-> <<"nodeID", "tableID", "partitionId", "fragmentId", "partitionOrder", "logPartId", "noOfReplicas", "currentPrimary", "preferredPrimary", "currentFirstBackup", "currentSecondBackup", "currentThirdBackup", "numAliveReplicas", "numDeadReplicas", "numLCPReplicas">>,
   types |-> <<"string", "string", "string", "string", "string", "string", "uint64", "uint64", "uint64", "uint64", "uint64", "uint64", "uint64", "uint64", "uint64">>,
   dynamic |-> FALSE,
   errSends |-> <<>>,
   rowSends |-> <<
       [desc |-> [fq |-> <<"namespace", "NDBInfo", <<"table_fragments_num_replicas">>>>, help |-> <<"The current/total number of replicas by node_id/table_id/partition_id/fragment_id/partition_order/log_part_id/status.">>, labels |-> <<"node_id", "table_id", "partition_id", "fragment_id", "partition_order", "log_part_id", "status">>],
        vtype |-> "GaugeValue", value |-> [k |-> "var", x |-> "noOfReplicas"],
        labels |-> <<[k |-> "var", x |-> "nodeID"], [k |-> "var", x |-> "tableID"], [k |-> "var", x |-> "partitionId"], [k |-> "var", x |-> "fragmentId"], [k |-> "var", x |-> "partitionOrder"], [k |-> "var", x |-> "logPartId"], [k |-> "lit", x |-> "total"]>>],
       [desc |-> [fq |-> <<"namespace", "NDBInfo", <<"table_fragments_primary">>>>, help |-> <<"The primary node ID by node_id/table_id/partition_id/fragment_id/partition_order/log_part_id/type.">>, labels |-> <<"node_id", "table_id", "partition_id", "fragment_id", "partition_order", "log_part_id", "type">>],
        vtype |-> "GaugeValue", value |-> [k |-> "var", x |-> "currentPrimary"],
        labels |-> <<[k |-> "var", x |-> "nodeID"], [k |-> "var", x |-> "tableID"], [k |-> "var", x |-> "partitionId"], [k |-> "var", x |-> "fragmentId"], [k |-> "var", x |-> "partitionOrder"], [k |-> "var", x |-> "logPartId"], [k |-> "lit", x |-> "current"]>>],
       [desc |-> [fq |-> <<"namespace", "NDBInfo", <<"table_fragments_primary">>>>, help |-> <<"The primary node ID by node_id/table_id/partition_id/fragment_id/partition_order/log_part_id/type.">>, labels |-> <<"node_id", "table_id", "partition_id", "fragment_id", "partition_order", "log_part_id", "type">>],
        vtype |-> "GaugeValue", value |-> [k |-> "var", x |-> "preferredPrimary"],
        labels |-> <<[k |-> "var", x |-> "nodeID"], [k |-> "var", x |-> "tableID"], [k |-> "var", x |-> "partitionId"], [k |-> "var", x |-> "fragmentId"], [k |-> "var", x |-> "partitionOrder"], [k |-> "var", x |-> "logPartId"], [k |-> "lit", x |-> "preferred"]>>],
       [desc |-> [fq |-> <<"namespace", "NDBInfo", <<"table_fragments_current_backup">>>>, help |-> <<"The current backup node ID by node_id/table_id/partition_id/fragment_id/partition_order/log_part_id/order.">>, labels |-> <<"node_id", "table_id", "partition_id", "fragment_id", "partition_order", "log_part_id", "order">>],
        vtype |-> "GaugeValue", value |-> [k |-> "var", x |-> "currentFirstBackup"],
        labels |-> <<[k |-> "var", x |-> "nodeID"], [k |-> "var", x |-> "tableID"], [k |-> "var", x |-> "partitionId"], [k |-> "var", x |-> "fragmentId"], [k |-> "var", x |-> "partitionOrder"], [k |-> "var", x |-> "logPartId"], [k |-> "lit", x |-> "first"]>>],
       [desc |-> [fq |-> <<"namespace", "NDBInfo", <<"table_fragments_current_backup">>>>, help |-> <<"The current backup node ID by node_id/table_id/partition_id/fragment_id/partition_order/log_part_id/order.">>, labels |-> <<"node_id", "table_id", "partition_id", "fragment_id", "partition_order", "log_part_id", "order">>],
        vtype |-> "GaugeValue", value |-> [k |-> "var", x |-> "currentSecondBackup"],
        labels |-> <<[k |-> "var", x |-> "nodeID"], [k |-> "var", x |-> "tableID"], [k |-> "var", x |-> "partitionId"], [k |-> "var", x |-> "fragmentId"], [k |-> "var", x |-> "partitionOrder"], [k |-> "var", x |-> "logPartId"], [k |-> "lit", x |-> "second"]>>],
       [desc |-> [fq |-> <<"namespace", "NDBInfo", <<"table_fragments_current_backup">>>>, help |-> <<"The current backup node ID by node_id/table_id/partition_id/fragment_id/partition_order/log_part_id/order.">>, labels |-> <<"node_id", "table_id", "partition_id", "fragment_id", "partition_order", "log_part_id", "order">>],
        vtype |-> "GaugeValue", value |-> [k |-> "var", x |-> "currentThirdBackup"],
        labels |-> <<[k |-> "var", x |-> "nodeID"], [k |-> "var", x |-> "tableID"], [k |-> "var", x |-> "partitionId"], [k |-> "var", x |-> "fragmentId"], [k |-> "var", x |-> "partitionOrder"], [k |-> "var", x |-> "logPartId"], [k |-> "lit", x |-> "third"]>>],
       [desc |-> [fq |-> <<"namespace", "NDBInfo", <<"table_fragments_num_replicas">>>>, help |-> <<"The current/total number of replicas by node_id/table_id/partition_id/fragment_id/partition_order/log_part_id/status.">>, labels |-> <<"node_id", "table_id", "partition_id", "fragment_id", "partition_order", "log_part_id", "status">>],
        vtype |-> "GaugeValue", value |-> [k |-> "var", x |-> "numAliveReplicas"],
        labels |-> <<[k |-> "var", x |-> "nodeID"], [k |-> "var", x |-> "tableID"], [k |-> "var", x |-> "partitionId"], [k |-> "var", x |-> "fragmentId"], [k |-> "var", x |-> "partitionOrder"], [k |-> "var", x |-> "logPartId"], [k |-> "lit", x |-> "alive"]>>],
       [desc |-> [fq |-> <<"namespace", "NDBInfo", <<"table_fragments_num_replicas">>>>, help |-> <<"The current/total number of replicas by node_id/table_id/partition_id/fragment_id/partition_order/log_part_id/status.">>, labels |-> <<"node_id", "table_id", "partition_id", "fragment_id", "partition_order", "log_part_id", "status">>],
        vtype |-> "GaugeValue", value |-> [k |-> "var", x |-> "numDeadReplicas"],
        labels |-> <<[k |-> "var", x |-> "nodeID"], [k |-> "var", x |-> "tableID"], [k |-> "var", x |-> "partitionId"], [k |-> "var", x |-> "fragmentId"], [k |-> "var", x |-> "partitionOrder"], [k |-> "var", x |-> "logPartId"], [k |-> "lit", x |-> "dead"]>>],
       [desc |-> [fq |-> <<"namespace", "NDBInfo", <<"table_fragments_num_replicas">>>>, help |-> <<"The current/total number of replicas by node_id/table_id/partition_id/fragment_id/partition_order/log_part_id/status.">>, labels |-> <<"node_id", "table_id", "partition_id", "fragment_id", "partition_order", "log_part_id", "status">>],
        vtype |-> "GaugeValue", value |-> [k |-> "var", x |-> "numLCPReplicas"],
        labels |-> <<[k |-> "var", x |-> "nodeID"], [k |-> "var", x |-> "tableID"], [k |-> "var", x |-> "partitionId"], [k |-> "var", x |-> "fragmentId"], [k |-> "var", x |-> "partitionOrder"], [k |-> "var", x |-> "logPartId"], [k |-> "lit", x |-> "lcp"]>>]>>]

ScrapeNDBInfoRestartInfo ==
  [name |-> <<"NDBInfo", ".restart_info">>,
   version |-> 80,
   columns |-> <<
      [name |-> "node_id", nullable |-> TRUE, dflt |-> <<>>],
      [name |-> "node_restart_status_int", nullable |-> TRUE, dflt |-> <<>>],
      [name |-> "secs_to_complete_node_failure", nullable |-> TRUE, dflt |-> <<>>],
      [name |-> "secs_to_allocate_node_id", nullable |-> TRUE, dflt |-> <<>>],
      [name |-> "secs_to_include_in_heartbeat_protocol", nullable |-> TRUE, dflt |-> <<>>],
      [name |-> "secs_until_wait_for_ndbcntr_master", nullable |-> TRUE, dflt |-> <<>>],
      [name |-> "secs_wait_for_ndbcntr_master", nullable |-> TRUE, dflt |-> <<>>],
      [name |-> "secs_to_get_start_permitted", nullable |-> TRUE, dflt |-> <<>>],
      [name |-> "secs_to_wait_for_lcp_for_copy_meta_data", nullable |-> TRUE, dflt |-> <<>>],
      [name |-> "secs_to_copy_meta_data", nullable |-> TRUE, dflt |-> <<>>],
      [name |-> "secs_to_include_node", nullable |-> TRUE, dflt |-> <<>>],
      [name |-> "secs_starting_node_to_request_local_recovery", nullable |-> TRUE, dflt |-> <<>>],
      [name |-> "secs_for_local_recovery", nullable |-> TRUE, dflt |-> <<>>],
      [name |-> "secs_restore_fragments", nullable |-> TRUE, dflt |-> <<>>],
      [name |-> "secs_undo_disk_data", nullable |-> TRUE, dflt |-> <<>>],
      [name |-> "secs_exec_redo_log", nullable |-> TRUE, dflt |-> <<>>],
      [name |-> "secs_index_rebuild", nullable |-> TRUE, dflt |-> <<>>],
      [name |-> "secs_to_synchronize_starting_node", nullable |-> TRUE, dflt |-> <<>>],
      [name |-> "secs_wait_lcp_for_restart", nullable |-> TRUE, dflt |-> <<>>],
      [name |-> "secs_wait_subscription_handover", nullable |-> TRUE, dflt |-> <<>>],
      [name |-> "total_restart_secs", nullable |-> TRUE, dflt |-> <<>>]>>,
   dests |-> <<"nodeID", "nodeRestartStatusInt", "secsToCompleteNodeFailure", "secsToAllocateNodeId", "secsToIncludeInHeartbeatProtocol", "secsUntilWaitForNDBCntrMaster", "secsWaitForNDBCntrMaster", "secsToGetStartPermitted", "secsToWaitForLCPForCopyMetaData", "secsToCopyMetaData", "secsToIncludeNode", "secsStartingNodeToRequestLocalRecovery", "secsForLocalRecovery", "secsRestoreFragments", "secsUndoDiskData", "secsExecRedoLog", "secsIndexRebuild", "secsToSynchronizeStartingNode", "secsWaitLCPForRestart", "secsWaitSubscriptionHandover", "totalRestartSecs">>,
   types |-> <<"string", "uint64", "uint64", "uint64", "uint64", "uint64", "uint64", "uint64", "uint64", "uint64", "uint64", "uint64", "uint64", "uint64", "uint64", "uint64", "uint64", "uint64", "uint64", "uint64", "uint64">>,
   dynamic |-> FALSE,
   errSends |-> <<>>,
   rowSends |-> <<
       [desc |-> [fq |-> <<"namespace", "NDBInfo", <<"restart_info_node_restart_status_int">>>>, help |-> <<"The node restart status code by node_id. See manual for human readable value.">>, labels |-> <<"node_id">>],
        vtype |-> "GaugeValue", value |-> [k |-> "var", x |-> "nodeRestartStatusInt"],
        labels |-> <<[k |-> "var", x |-> "nodeID"]>>],
       [desc |-> [fq |-> <<"namespace", "NDBInfo", <<"restart_info_secs">>>>, help |-> <<"Time in seconds to complete action by node_id/action.">>, labels |-> <<"node_id", "action">>],
        vtype |-> "GaugeValue", value |-> [k |-> "var", x |-> "secsToCompleteNodeFailure"],
        labels |-> <<[k |-> "var", x |-> "nodeID"], [k |-> "lit", x |-> "complete_node_failure"]>>],
       [desc |-> [fq |-> <<"namespace", "NDBInfo", <<"restart_info_secs">>>>, help |-> <<"Time in seconds to complete action by node_id/action.">>, labels |-> <<"node_id", "action">>],
        vtype |-> "GaugeValue", value |-> [k |-> "var", x |-> "secsToAllocateNodeId"],
        labels |-> <<[k |-> "var", x |-> "nodeID"], [k |-> "lit", x |-> "allocate_node_id"]>>],
       [desc |-> [fq |-> <<"namespace", "NDBInfo", <<"restart_info_secs">>>>, help |-> <<"Time in seconds to complete action by node_id/action.">>, labels |-> <<"node_id", "action">>],
        vtype |-> "GaugeValue", value |-> [k |-> "var", x |-> "secsToIncludeInHeartbeatProtocol"],
        labels |-> <<[k |-> "var", x |-> "nodeID"], [k |-> "lit", x |-> "include_in_heartbeat_protocol"]>>],
       [desc |-> [fq |-> <<"namespace", "NDBInfo", <<"restart_info_secs">>>>, help |-> <<"Time in seconds to complete action by node_id/action.">>, labels |-> <<"node_id", "action">>],
        vtype |-> "GaugeValue", value |-> [k |-> "var", x |-> "secsUntilWaitForNDBCntrMaster"],
        labels |-> <<[k |-> "var", x |-> "nodeID"], [k |-> "lit", x |-> "until_wait_for_ndbcntr_master"]>>],
       [desc |-> [fq |-> <<"namespace", "NDBInfo", <<"restart_info_secs">>>>, help |-> <<"Time in seconds to complete action by node_id/action.">>, labels |-> <<"node_id", "action">>],
        vtype |-> "GaugeValue", value |-> [k |-> "var", x |-> "secsWaitForNDBCntrMaster"],
        labels |-> <<[k |-> "var", x |-> "nodeID"], [k |-> "lit", x |-> "wait_for_ndbcntr_master"]>>],
       [desc |-> [fq |-> <<"namespace", "NDBInfo", <<"restart_info_secs">>>>, help |-> <<"Time in seconds to complete action by node_id/action.">>, labels |-> <<"node_id", "action">>],
        vtype |-> "GaugeValue", value |-> [k |-> "var", x |-> "secsToGetStartPermitted"],
        labels |-> <<[k |-> "var", x |-> "nodeID"], [k |-> "lit", x |-> "get_start_permitted"]>>],
       [desc |-> [fq |-> <<"namespace", "NDBInfo", <<"restart_info_secs">>>>, help |-> <<"Time in seconds to complete action by node_id/action.">>, labels |-> <<"node_id", "action">>],
        vtype |-> "GaugeValue", value |-> [k |-> "var", x |-> "secsToWaitForLCPForCopyMetaData"],
        labels |-> <<[k |-> "var", x |-> "nodeID"], [k |-> "lit", x |-> "wait_for_lcp_for_copy_meta_data"]>>],
       [desc |-> [fq |-> <<"namespace", "NDBInfo", <<"restart_info_secs">>>>, help |-> <<"Time in seconds to complete action by node_id/action.">>, labels |-> <<"node_id", "action">>],
        vtype |-> "GaugeValue", value |-> [k |-> "var", x |-> "secsToCopyMetaData"],
        labels |-> <<[k |-> "var", x |-> "nodeID"], [k |-> "lit", x |-> "copy_meta_data"]>>],
       [desc |-> [fq |-> <<"namespace", "NDBInfo", <<"restart_info_secs">>>>, help |-> <<"Time in seconds to complete action by node_id/action.">>, labels |-> <<"node_id", "action">>],
        vtype |-> "GaugeValue", value |-> [k |-> "var", x |-> "secsToIncludeNode"],
        labels |-> <<[k |-> "var", x |-> "nodeID"], [k |-> "lit", x |-> "include_node"]>>],
       [desc |-> [fq |-> <<"namespace", "NDBInfo", <<"restart_info_secs">>>>, help |-> <<"Time in seconds to complete action by node_id/action.">>, labels |-> <<"node_id", "action">>],
        vtype |-> "GaugeValue", value |-> [k |-> "var", x |-> "secsStartingNodeToRequestLocalRecovery"],
        labels |-> <<[k |-> "var", x |-> "nodeID"], [k |-> "lit", x |-> "starting_node_to_request_local_recovery"]>>],
       [desc |-> [fq |-> <<"namespace", "NDBInfo", <<"restart_info_secs">>>>, help |-> <<"Time in seconds to complete action by node_id/action.">>, labels |-> <<"node_id", "action">>],
        vtype |-> "GaugeValue", value |-> [k |-> "var", x |-> "secsForLocalRecovery"],
        labels |-> <<[k |-> "var", x |-> "nodeID"], [k |-> "lit", x |-> "local_recovery"]>>],
       [desc |-> [fq |-> <<"namespace", "NDBInfo", <<"restart_info_secs">>>>, help |-> <<"Time in seconds to complete action by node_id/action.">>, labels |-> <<"node_id", "action">>],
        vtype |-> "GaugeValue", value |-> [k |-> "var", x |-> "secsRestoreFragments"],
        labels |-> <<[k |-> "var", x |-> "nodeID"], [k |-> "lit", x |-> "restore_fragments"]>>],
       [desc |-> [fq |-> <<"namespace", "NDBInfo", <<"restart_info_secs">>>>, help |-> <<"Time in seconds to complete action by node_id/action.">>, labels |-> <<"node_id", "action">>],
        vtype |-> "GaugeValue", value |-> [k |-> "var", x |-> "secsUndoDiskData"],
        labels |-> <<[k |-> "var", x |-> "nodeID"], [k |-> "lit", x |-> "undo_disk_data"]>>],
       [desc |-> [fq |-> <<"namespace", "NDBInfo", <<"restart_info_secs">>>>, help |-> <<"Time in seconds to complete action by node_id/action.">>, labels |-> <<"node_id", "action">>],
        vtype |-> "GaugeValue", value |-> [k |-> "var", x |-> "secsExecRedoLog"],
        labels |-> <<[k |-> "var", x |-> "nodeID"], [k |-> "lit", x |-> "exec_redo_log"]>>],
       [desc |-> [fq |-> <<"namespace", "NDBInfo", <<"restart_info_secs">>>>, help |-> <<"Time in seconds to complete action by node_id/action.">>, labels |-> <<"node_id", "action">>],
        vtype |-> "GaugeValue", value |-> [k |-> "var", x |-> "secsIndexRebuild"],
        labels |-> <<[k |-> "var", x |-> "nodeID"], [k |-> "lit", x |-> "index_rebuild"]>>],
       [desc |-> [fq |-> <<"namespace", "NDBInfo", <<"restart_info_secs">>>>, help |-> <<"Time in seconds to complete action by node_id/action.">>, labels |-> <<"node_id", "action">>],
        vtype |-> "GaugeValue", value |-> [k |-> "var", x |-> "secsToSynchronizeStartingNode"],
        labels |-> <<[k |-> "var", x |-> "nodeID"], [k |-> "lit", x |-> "synchronize_starting_node"]>>],
       [desc |-> [fq |-> <<"namespace", "NDBInfo", <<"restart_info_secs">>>>, help |-> <<"Time in seconds to complete action by node_id/action.">>, labels |-> <<"node_id", "action">>],
        vtype |-> "GaugeValue", value |-> [k |-> "var", x |-> "secsWaitLCPForRestart"],
        labels |-> <<[k |-> "var", x |-> "nodeID"], [k |-> "lit", x |-> "wait_lcp_for_restart"]>>],
       [desc |-> [fq |-> <<"namespace", "NDBInfo", <<"restart_info_secs">>>>, help |-> <<"Time in seconds to complete action by node_id/action.">>, labels |-> <<"node_id", "action">>],
        vtype |-> "GaugeValue", value |-> [k |-> "var", x |-> "secsWaitSubscriptionHandover"],
        labels |-> <<[k |-> "var", x |-> "nodeID"], [k |-> "lit", x |-> "wait_subscription_handover"]>>],
       [desc |-> [fq |-> <<"namespace", "NDBInfo", <<"restart_info_secs">>>>, help |-> <<"Time in seconds to complete action by node_id/action.">>, labels |-> <<"node_id", "action">>],
        vtype |-> "GaugeValue", value |-> [k |-> "var", x |-> "totalRestartSecs"],
        labels |-> <<[k |-> "var", x |-> "nodeID"], [k |-> "lit", x |-> "total"]>>]>>]

ScrapeNDBInfoTableInfo ==
  [name |-> <<"NDBInfo", ".table_info">>,
   version |-> 80,
   columns |-> <<
      [name |-> "table_id", nullable |-> TRUE, dflt |-> <<>>],
      [name |-> "logged_table", nullable |-> TRUE, dflt |-> <<>>],
      [name |-> "row_contains_gci", nullable |-> TRUE, dflt |-> <<>>],
      [name |-> "row_contains_checksum", nullable |-> TRUE, dflt |-> <<>>],
      [name |-> "read_backup", nullable |-> TRUE, dflt |-> <<>>],
      [name |-> "fully_replicated", nullable |-> TRUE, dflt |-> <<>>],
      [name |-> "storage_type", nullable |-> TRUE, dflt |-> <<>>],
      [name |-> "hashmap_id", nullable |-> TRUE, dflt |-> <<>>],
      [name |-> "partition_balance", nullable |-> TRUE, dflt |-> <<>>],
      [name |-> "create_gci", nullable |-> TRUE, dflt |-> <<>>]>>,
   dests |-> <<"tableID", "loggedTable", "rowContainsGCI", "rowContainsChecksum", "readBackup", "fullyReplicated", "storageType", "hashmapId", "partitionBalance", "createGCI">>,
   types |-> <<"string", "uint64", "uint64", "uint64", "uint64", "uint64", "string", "string", "string", "uint64">>,
   dynamic |-> FALSE,
   errSends |-> <<>>,
   rowSends |-> <<
       [desc |-> [fq |-> <<"namespace", "NDBInfo", <<"table_info">>>>, help |-> <<"Whether table is contains info (1) or not (0) by table_id/storage_type/hashmap_id/partition_balance/info.">>, labels |-> <<"table_id", "storage_type", "hashmap_id", "partition_balance", "info">>],
        vtype |-> "GaugeValue", value |-> [k |-> "var", x |-> "loggedTable"],
        labels |-> <<[k |-> "var", x |-> "tableID"], [k |-> "var", x |-> "storageType"], [k |-> "var", x |-> "hashmapId"], [k |-> "var", x |-> "partitionBalance"], [k |-> "lit", x |-> "logged_table"]>>],
       [desc |-> [fq |-> <<"namespace", "NDBInfo", <<"table_info">>>>, help |-> <<"Whether table is contains info (1) or not (0) by table_id/storage_type/hashmap_id/partition_balance/info.">>, labels |-> <<"table_id", "storage_type", "hashmap_id", "partition_balance", "info">>],
        vtype |-> "GaugeValue", value |-> [k |-> "var", x |-> "rowContainsGCI"],
        labels |-> <<[k |-> "var", x |-> "tableID"], [k |-> "var", x |-> "storageType"], [k |-> "var", x |-> "hashmapId"], [k |-> "var", x |-> "partitionBalance"], [k |-> "lit", x |-> "row_contains_gci"]>>],
       [desc |-> [fq |-> <<"namespace", "NDBInfo", <<"table_info">>>>, help |-> <<"Whether table is contains info (1) or not (0) by table_id/storage_type/hashmap_id/partition_balance/info.">>, labels |-> <<"table_id", "storage_type", "hashmap_id", "partition_balance", "info">>],
        vtype |-> "GaugeValue", value |-> [k |-> "var", x |-> "rowContainsChecksum"],
        labels |-> <<[k |-> "var", x |-> "tableID"], [k |-> "var", x |-> "storageType"], [k |-> "var", x |-> "hashmapId"], [k |-> "var", x |-> "partitionBalance"], [k |-> "lit", x |-> "row_contains_checksum"]>>],
       [desc |-> [fq |-> <<"namespace", "NDBInfo", <<"table_info">>>>, help |-> <<"Whether table is contains info (1) or not (0) by table_id/storage_type/hashmap_id/partition_balance/info.">>, labels |-> <<"table_id", "storage_type", "hashmap_id", "partition_balance", "info">>],
        vtype |-> "GaugeValue", value |-> [k |-> "var", x |-> "readBackup"],
        labels |-> <<[k |-> "var", x |-> "tableID"], [k |-> "var", x |-> "storageType"], [k |-> "var", x |-> "hashmapId"], [k |-> "var", x |-> "partitionBalance"], [k |-> "lit", x |-> "read_backup"]>>],
       [desc |-> [fq |-> <<"namespace", "NDBInfo", <<"table_info">>>>, help |-> <<"Whether table is contains info (1) or not (0) by table_id/storage_type/hashmap_id/partition_balance/info.">>, labels |-> <<"table_id", "storage_type", "hashmap_id", "partition_balance", "info">>],
        vtype |-> "GaugeValue", value |-> [k |-> "var", x |-> "fullyReplicated"],
        labels |-> <<[k |-> "var", x |-> "tableID"], [k |-> "var", x |-> "storageType"], [k |-> "var", x |-> "hashmapId"], [k |-> "var", x |-> "partitionBalance"], [k |-> "lit", x |-> "fully_replicated"]>>],
       [desc |-> [fq |-> <<"namespace", "NDBInfo", <<"table_info_create_gci">>>>, help |-> <<"GCI from which table was created by table_id/storage_type/hashmap_id/partition_balance.">>, labels |-> <<"table_id", "storage_type", "hashmap_id", "partition_balance">>],
        vtype |-> "GaugeValue", value |-> [k |-> "var", x |-> "createGCI"],
        labels |-> <<[k |-> "var", x |-> "tableID"], [k |-> "var", x |-> "storageType"], [k |-> "var", x |-> "hashmapId"], [k |-> "var", x |-> "partitionBalance"]>>]>>]

ScrapeNDBInfoTCTimeTrackStats ==
  [name |-> <<"NDBInfo", ".tc_time_track_stats">>,
   version |-> 80,
   columns |-> <<
      [name |-> "node_id", nullable |-> TRUE, dflt |-> <<>>],
      [name |-> "comm_node_id", nullable |-> TRUE, dflt |-> <<>>],
      [name |-> "upper_bound", nullable |-> TRUE, dflt |-> <<>>],
      [name |-> "scans", nullable |-> TRUE, dflt |-> <<>>],
      [name |-> "scan_errors", nullable |-> TRUE, dflt |-> <<>>],
      [name |-> "scan_fragments", nullable |-> TRUE, dflt |-> <<>>],
      [name |-> "scan_fragment_errors", nullable |-> TRUE, dflt |-> <<>>],
      [name |-> "transactions", nullable |-> TRUE, dflt |-> <<>>],
      [name |-> "transaction_errors", nullable |-> TRUE, dflt |-> <<>>],
      [name |-> "read_key_ops", nullable |-> TRUE, dflt |-> <<>>],
      [name |-> "write_key_ops", nullable |-> TRUE, dflt |-> <<>>],
      [name |-> "index_key_ops", nullable |-> TRUE, dflt |-> <<>>],
      [name |-> "key_op_errors", nullable |-> TRUE, dflt |-> <<>>]>>,
   dests |-> <<"nodeID", "commNodeID", "upperBound", "scans", "scanErrors", "scanFragments", "scanFragmentErrors", "transactions", "transactionErrors", "readKeyOps", "writeKeyOps", "indexKeyOps", "keyOpErrors">>,
   types |-> <<"string", "string", "string", "uint64", "uint64", "uint64", "uint64", "uint64", "uint64", "uint64", "uint64", "uint64", "uint64">>,
   dynamic |-> FALSE,
   errSends |-> <<>>,
   rowSends |-> <<
       [desc |-> [fq |-> <<"namespace", "NDBInfo", <<"tc_time_track_stats_count">>>>, help |-> <<"The amount of actions by node_id/comm_node_id/upper_bound/action.">>, labels |-> <<"node_id", "comm_node_id", "upper_bound", "action">>],
        vtype |-> "CounterValue", value |-> [k |-> "var", x |-> "scans"],
        labels |-> <<[k |-> "var", x |-> "nodeID"], [k |-> "var", x |-> "commNodeID"], [k |-> "var", x |-> "upperBound"], [k |-> "lit", x |-> "scans"]>>],
       [desc |-> [fq |-> <<"namespace", "NDBInfo", <<"tc_time_track_stats_count">>>>, help |-> <<"The amount of actions by node_id/comm_node_id/upper_bound/action.">>, labels |-> <<"node_id", "comm_node_id", "upper_bound", "action">>],
        vtype |-> "CounterValue", value |-> [k |-> "var", x |-> "scanErrors"],
        labels |-> <<[k |-> "var", x |-> "nodeID"], [k |-> "var", x |-> "commNodeID"], [k |-> "var", x |-> "upperBound"], [k |-> "lit", x |-> "scan_errors"]>>],
       [desc |-> [fq |-> <<"namespace", "NDBInfo", <<"tc_time_track_stats_count">>>>, help |-> <<"The amount of actions by node_id/comm_node_id/upper_bound/action.">>, labels |-> <<"node_id", "comm_node_id", "upper_bound", "action">>],
        vtype |-> "CounterValue", value |-> [k |-> "var", x |-> "scanFragments"],
        labels |-> <<[k |-> "var", x |-> "nodeID"], [k |-> "var", x |-> "commNodeID"], [k |-> "var", x |-> "upperBound"], [k |-> "lit", x |-> "scan_fragments"]>>],
       [desc |-> [fq |-> <<"namespace", "NDBInfo", <<"tc_time_track_stats_count">>>>, help |-> <<"The amount of actions by node_id/comm_node_id/upper_bound/action.">>, labels |-> <<"node_id", "comm_node_id", "upper_bound", "action">>],
        vtype |-> "CounterValue", value |-> [k |-> "var", x |-> "scanFragmentErrors"],
        labels |-> <<[k |-> "var", x |-> "nodeID"], [k |-> "var", x |-> "commNodeID"], [k |-> "var", x |-> "upperBound"], [k |-> "lit", x |-> "scan_fragment_errors"]>>],
       [desc |-> [fq |-> <<"namespace", "NDBInfo", <<"tc_time_track_stats_count">>>>, help |-> <<"The amount of actions by node_id/comm_node_id/upper_bound/action.">>, labels |-> <<"node_id", "comm_node_id", "upper_bound", "action">>],
        vtype |-> "CounterValue", value |-> [k |-> "var", x |-> "transactions"],
        labels |-> <<[k |-> "var", x |-> "nodeID"], [k |-> "var", x |-> "commNodeID"], [k |-> "var", x |-> "upperBound"], [k |-> "lit", x |-> "transactions"]>>],
       [desc |-> [fq |-> <<"namespace", "NDBInfo", <<"tc_time_track_stats_count">>>>, help |-> <<"The amount of actions by node_id/comm_node_id/upper_bound/action.">>, labels |-> <<"node_id", "comm_node_id", "upper_bound", "action">>],
        vtype |-> "CounterValue", value |-> [k |-> "var", x |-> "transactionErrors"],
        labels |-> <<[k |-> "var", x |-> "nodeID"], [k |-> "var", x |-> "commNodeID"], [k |-> "var", x |-> "upperBound"], [k |-> "lit", x |-> "transaction_errors"]>>],
       [desc |-> [fq |-> <<"namespace", "NDBInfo", <<"tc_time_track_stats_count">>>>, help |-> <<"The amount of actions by node_id/comm_node_id/upper_bound/action.">>, labels |-> <<"node_id", "comm_node_id", "upper_bound", "action">>],
        vtype |-> "CounterValue", value |-> [k |-> "var", x |-> "readKeyOps"],
        labels |-> <<[k |-> "var", x |-> "nodeID"], [k |-> "var", x |-> "commNodeID"], [k |-> "var", x |-> "upperBound"], [k |-> "lit", x |-> "read_key_ops"]>>],
       [desc |-> [fq |-> <<"namespace", "NDBInfo", <<"tc_time_track_stats_count">>>>, help |-> <<"The amount of actions by node_id/comm_node_id/upper_bound/action.">>, labels |-> <<"node_id", "comm_node_id", "upper_bound", "action">>],
        vtype |-> "CounterValue", value |-> [k |-> "var", x |-> "writeKeyOps"],
        labels |-> <<[k |-> "var", x |-> "nodeID"], [k |-> "var", x |-> "commNodeID"], [k |-> "var", x |-> "upperBound"], [k |-> "lit", x |-> "write_key_ops"]>>],
       [desc |-> [fq |-> <<"namespace", "NDBInfo", <<"tc_time_track_stats_count">>>>, help |-> <<"The amount of actions by node_id/comm_node_id/upper_bound/action.">>, labels |-> <<"node_id", "comm_node_id", "upper_bound", "action">>],
        vtype |-> "CounterValue", value |-> [k |-> "var", x |-> "indexKeyOps"],
        labels |-> <<[k |-> "var", x |-> "nodeID"], [k |-> "var", x |-> "commNodeID"], [k |-> "var", x |-> "upperBound"], [k |-> "lit", x |-> "index_key_ops"]>>],
       [desc |-> [fq |-> <<"namespace", "NDBInfo", <<"tc_time_track_stats_count">>>>, help |-> <<"The amount of actions by node_id/comm_node_id/upper_bound/action.">>, labels |-> <<"node_id", "comm_node_id", "upper_bound", "action">>],
        vtype |-> "CounterValue", value |-> [k |-> "var", x |-> "keyOpErrors"],
        labels |-> <<[k |-> "var", x |-> "nodeID"], [k |-> "var", x |-> "commNodeID"], [k |-> "var", x |-> "upperBound"], [k |-> "lit", x |-> "key_op_errors"]>>]>>]

ScrapeNDBInfoThreads ==
  [name |-> <<"NDBInfo", ".threads">>,
   version |-> 80,
   columns |-> <<
      [name |-> "node_id", nullable |-> TRUE, dflt |-> <<>>],
      [name |-> "thr_no", nullable |-> TRUE, dflt |-> <<>>],
      [name |-> "thread_name", nullable |-> TRUE, dflt |-> <<>>],
      [name |-> "thread_description", nullable |-> TRUE, dflt |-> <<>>]>>,
   dests |-> <<"nodeID", "thrNo", "threadName", "threadDescription">>,
   types |-> <<"string", "string", "string", "string">>,
   dynamic |-> FALSE,
   errSends |-> <<
       [desc |-> [fq |-> <<"namespace", "NDBInfo", <<"threads">>>>, help |-> <<"Returns 1 if query is successful, 0 if error encountered. Grouped by node_id/thr_no/thread_name/thread_description.">>, labels |-> <<"node_id", "thr_no", "thread_name", "thread_description">>],
        vtype |-> "GaugeValue", value |-> [k |-> "const", x |-> "0"],
        labels |-> <<[k |-> "var", x |-> "nodeID"], [k |-> "var", x |-> "thrNo"], [k |-> "var", x |-> "threadName"], [k |-> "var", x |-> "threadDescription"]>>]>>,
   rowSends |-> <<
       [desc |-> [fq |-> <<"namespace", "NDBInfo", <<"threads">>>>, help |-> <<"Returns 1 if query is successful, 0 if error encountered. Grouped by node_id/thr_no/thread_name/thread_description.">>, labels |-> <<"node_id", "thr_no", "thread_name", "thread_description">>],
        vtype |-> "GaugeValue", value |-> [k |-> "const", x |-> "1"],
        labels |-> <<[k |-> "var", x |-> "nodeID"], [k |-> "var", x |-> "thrNo"], [k |-> "var", x |-> "threadName"], [k |-> "var", x |-> "threadDescription"]>>]>>]

ScrapeNDBInfoThreadStat ==
  [name |-> <<"NDBInfo", ".threadstat">>,
   version |-> 80,
   columns |-> <<
      [name |-> "node_id", nullable |-> TRUE, dflt |-> <<>>],
      [name |-> "thr_no", nullable |-> TRUE, dflt |-> <<>>],
      [name |-> "thr_nm", nullable |-> TRUE, dflt |-> <<>>],
      [name |-> "c_loop", nullable |-> TRUE, dflt |-> <<>>],
      [name |-> "c_exec", nullable |-> TRUE, dflt |-> <<>>],
      [name |-> "c_wait", nullable |-> TRUE, dflt |-> <<>>],
      [name |-> "c_l_sent_prioa", nullable |-> TRUE, dflt |-> <<>>],
      [name |-> "c_l_sent_priob", nullable |-> TRUE, dflt |-> <<>>],
      [name |-> "c_r_sent_prioa", nullable |-> TRUE, dflt |-> <<>>],
      [name |-> "c_r_sent_priob", nullable |-> TRUE, dflt |-> <<>>],
      [name |-> "os_tid", nullable |-> TRUE, dflt |-> <<>>],
      [name |-> "os_ru_utime", nullable |-> TRUE, dflt |-> <<>>],
      [name |-> "os_ru_stime", nullable |-> TRUE, dflt |-> <<>>],
      [name |-> "os_ru_minflt", nullable |-> TRUE, dflt |-> <<>>],
      [name |-> "os_ru_majflt", nullable |-> TRUE, dflt |-> <<>>],
      [name |-> "os_ru_nvcsw", nullable |-> TRUE, dflt |-> <<>>],
      [name |-> "os_ru_nivcsw", nullable |-> TRUE, dflt |-> <<>>]>>,
   dests |-> <<"nodeID", "thrNo", "thrNm", "cLoop", "cExec", "cWait", "cLSentPrioA", "cLSentPrioB", "cRSentPrioA", "cRSentPrioB", "osTID", "osRuUtime", "osRuStime", "osRuMinFlt", "osRuMajFlt", "osRuNvcsw", "osRuNivcsw">>,
   types |-> <<"string", "string", "string", "uint64", "uint64", "uint64", "uint64", "uint64", "uint64", "uint64", "uint64", "uint64", "uint64", "uint64", "uint64", "uint64", "uint64">>,
   dynamic |-> FALSE,
   errSends |-> <<>>,
   rowSends |-> <<
       [desc |-> [fq |-> <<"namespace", "NDBInfo", <<"threadstat_total">>>>, help |-> <<"The amount of actions by node_id/thr_no/thr_nm/action.">>, labels |-> <<"node_id", "thr_no", "thr_nm", "action">>],
        vtype |-> "CounterValue", value |-> [k |-> "var", x |-> "cLoop"],
        labels |-> <<[k |-> "var", x |-> "nodeID"], [k |-> "var", x |-> "thrNo"], [k |-> "var", x |-> "thrNm"], [k |-> "lit", x |-> "c_loop"]>>],
       [desc |-> [fq |-> <<"namespace", "NDBInfo", <<"threadstat_total">>>>, help |-> <<"The amount of actions by node_id/thr_no/thr_nm/action.">>, labels |-> <<"node_id", "thr_no", "thr_nm", "action">>],
        vtype |-> "CounterValue", value |-> [k |-> "var", x |-> "cExec"],
        labels |-> <<[k |-> "var", x |-> "nodeID"], [k |-> "var", x |-> "thrNo"], [k |-> "var", x |-> "thrNm"], [k |-> "lit", x |-> "c_exec"]>>],
       [desc |-> [fq |-> <<"namespace", "NDBInfo", <<"threadstat_total">>>>, help |-> <<"The amount of actions by node_id/thr_no/thr_nm/action.">>, labels |-> <<"node_id", "thr_no", "thr_nm", "action">>],
        vtype |-> "CounterValue", value |-> [k |-> "var", x |-> "cWait"],
        labels |-> <<[k |-> "var", x |-> "nodeID"], [k |-> "var", x |-> "thrNo"], [k |-> "var", x |-> "thrNm"], [k |-> "lit", x |-> "c_wait"]>>],
       [desc |-> [fq |-> <<"namespace", "NDBInfo", <<"threadstat_total">>>>, help |-> <<"The amount of actions by node_id/thr_no/thr_nm/action.">>, labels |-> <<"node_id", "thr_no", "thr_nm", "action">>],
        vtype |-> "CounterValue", value |-> [k |-> "var", x |-> "cLSentPrioA"],
        labels |-> <<[k |-> "var", x |-> "nodeID"], [k |-> "var", x |-> "thrNo"], [k |-> "var", x |-> "thrNm"], [k |-> "lit", x |-> "c_l_sent_prioa"]>>],
       [desc |-> [fq |-> <<"namespace", "NDBInfo", <<"threadstat_total">>>>, help |-> <<"The amount of actions by node_id/thr_no/thr_nm/action.">>, labels |-> <<"node_id", "thr_no", "thr_nm", "action">>],
        vtype |-> "CounterValue", value |-> [k |-> "var", x |-> "cLSentPrioB"],
        labels |-> <<[k |-> "var", x |-> "nodeID"], [k |-> "var", x |-> "thrNo"], [k |-> "var", x |-> "thrNm"], [k |-> "lit", x |-> "c_l_sent_priob"]>>],
       [desc |-> [fq |-> <<"namespace", "NDBInfo", <<"threadstat_total">>>>, help |-> <<"The amount of actions by node_id/thr_no/thr_nm/action.">>, labels |-> <<"node_id", "thr_no", "thr_nm", "action">>],
        vtype |-> "CounterValue", value |-> [k |-> "var", x |-> "cRSentPrioA"],
        labels |-> <<[k |-> "var", x |-> "nodeID"], [k |-> "var", x |-> "thrNo"], [k |-> "var", x |-> "thrNm"], [k |-> "lit", x |-> "c_r_sent_prioa"]>>],
       [desc |-> [fq |-> <<"namespace", "NDBInfo", <<"threadstat_total">>>>, help |-> <<"The amount of actions by node_id/thr_no/thr_nm/action.">>, labels |-> <<"node_id", "thr_no", "thr_nm", "action">>],
        vtype |-> "CounterValue", value |-> [k |-> "var", x |-> "cRSentPrioB"],
        labels |-> <<[k |-> "var", x |-> "nodeID"], [k |-> "var", x |-> "thrNo"], [k |-> "var", x |-> "thrNm"], [k |-> "lit", x |-> "c_r_sent_priob"]>>],
       [desc |-> [fq |-> <<"namespace", "NDBInfo", <<"threadstat_os_tid">>>>, help |-> <<"The operating system thread ID for node_id/thr_no/thr_nm.">>, labels |-> <<"node_id", "thr_no", "thr_nm">>],
        vtype |-> "GaugeValue", value |-> [k |-> "var", x |-> "osTID"],
        labels |-> <<[k |-> "var", x |-> "nodeID"], [k |-> "var", x |-> "thrNo"], [k |-> "var", x |-> "thrNm"]>>],
       [desc |-> [fq |-> <<"namespace", "NDBInfo", <<"threadstat_time_total">>>>, help |-> <<"The action CPU time in microseconds for the thread by node_id/thr_no/thr_nm/action.">>, labels |-> <<"node_id", "thr_no", "thr_nm", "action">>],
        vtype |-> "CounterValue", value |-> [k |-> "var", x |-> "osRuUtime"],
        labels |-> <<[k |-> "var", x |-> "nodeID"], [k |-> "var", x |-> "thrNo"], [k |-> "var", x |-> "thrNm"], [k |-> "lit", x |-> "os_ru_utime"]>>],
       [desc |-> [fq |-> <<"namespace", "NDBInfo", <<"threadstat_time_total">>>>, help |-> <<"The action CPU time in microseconds for the thread by node_id/thr_no/thr_nm/action.">>, labels |-> <<"node_id", "thr_no", "thr_nm", "action">>],
        vtype |-> "CounterValue", value |-> [k |-> "var", x |-> "osRuStime"],
        labels |-> <<[k |-> "var", x |-> "nodeID"], [k |-> "var", x |-> "thrNo"], [k |-> "var", x |-> "thrNm"], [k |-> "lit", x |-> "os_ru_stime"]>>],
       [desc |-> [fq |-> <<"namespace", "NDBInfo", <<"threadstat_total">>>>, help |-> <<"The amount of actions by node_id/thr_no/thr_nm/action.">>, labels |-> <<"node_id", "thr_no", "thr_nm", "action">>],
        vtype |-> "CounterValue", value |-> [k |-> "var", x |-> "osRuMinFlt"],
        labels |-> <<[k |-> "var", x |-> "nodeID"], [k |-> "var", x |-> "thrNo"], [k |-> "var", x |-> "thrNm"], [k |-> "lit", x |-> "os_ru_minflt"]>>],
       [desc |-> [fq |-> <<"namespace", "NDBInfo", <<"threadstat_total">>>>, help |-> <<"The amount of actions by node_id/thr_no/thr_nm/action.">>, labels |-> <<"node_id", "thr_no", "thr_nm", "action">>],
        vtype |-> "CounterValue", value |-> [k |-> "var", x |-> "osRuMajFlt"],
        labels |-> <<[k |-> "var", x |-> "nodeID"], [k |-> "var", x |-> "thrNo"], [k |-> "var", x |-> "thrNm"], [k |-> "lit", x |-> "os_ru_majflt"]>>],
       [desc |-> [fq |-> <<"namespace", "NDBInfo", <<"threadstat_total">>>>, help |-> <<"The amount of actions by node_id/thr_no/thr_nm/action.">>, labels |-> <<"node_id", "thr_no", "thr_nm", "action">>],
        vtype |-> "CounterValue", value |-> [k |-> "var", x |-> "osRuNvcsw"],
        labels |-> <<[k |-> "var", x |-> "nodeID"], [k |-> "var", x |-> "thrNo"], [k |-> "var", x |-> "thrNm"], [k |-> "lit", x |-> "os_ru_nvcsw"]>>],
       [desc |-> [fq |-> <<"namespace", "NDBInfo", <<"threadstat_total">>>>, help |-> <<"The amount of actions by node_id/thr_no/thr_nm/action.">>, labels |-> <<"node_id", "thr_no", "thr_nm", "action">>],
        vtype |-> "CounterValue", value |-> [k |-> "var", x |-> "osRuNivcsw"],
        labels |-> <<[k |-> "var", x |-> "nodeID"], [k |-> "var", x |-> "thrNo"], [k |-> "var", x |-> "thrNm"], [k |-> "lit", x |-> "os_ru_nivcsw"]>>]>>]

ScrapeNDBInfoTransporters ==
  [name |-> <<"NDBInfo", ".transporters">>,
   version |-> 80,
   columns |-> <<
      [name |-> "node_id", nullable |-> TRUE, dflt |-> <<>>],
      [name |-> "remote_node_id", nullable |-> TRUE, dflt |-> <<>>],
      [name |-> "status", nullable |-> TRUE, dflt |-> <<>>],
      [name |-> "remote_address", nullable |-> TRUE, dflt |-> <<>>],
      [name |-> "bytes_sent", nullable |-> TRUE, dflt |-> <<>>],
      [name |-> "bytes_received", nullable |-> TRUE, dflt |-> <<>>],
      [name |-> "connect_count", nullable |-> TRUE, dflt |-> <<>>],
      [name |-> "overloaded", nullable |-> TRUE, dflt |-> <<>>],
      [name |-> "overload_count", nullable |-> TRUE, dflt |-> <<>>],
      [name |-> "slowdown", nullable |-> TRUE, dflt |-> <<>>],
      [name |-> "slowdown_count", nullable |-> TRUE, dflt |-> <<>>]>>,
   dests |-> <<"nodeID", "remoteNodeID", "status", "remoteAddress", "bytesSent", "bytesReceived", "connectCount", "overloaded", "overloadCount", "slowdown", "slowdownCount">>,
   types |-> <<"string", "string", "string", "string", "uint64", "uint64", "uint64", "uint64", "uint64", "uint64", "uint64">>,
   dynamic |-> FALSE,
   errSends |-> <<>>,
   rowSends |-> <<
       [desc |-> [fq |-> <<"namespace", "NDBInfo", <<"transporters_bytes_total">>>>, help |-> <<"The total amount of bytes sent/received using this connection by node_id/remote_node_id/status/remote_address/action.">>, labels |-> <<"node_id", "remote_node_id", "status", "remote_address", "action">>],
        vtype |-> "CounterValue", value |-> [k |-> "var", x |-> "bytesSent"],
        labels |-> <<[k |-> "var", x |-> "nodeID"], [k |-> "var", x |-> "remoteNodeID"], [k |-> "var", x |-> "status"], [k |-> "var", x |-> "remoteAddress"], [k |-> "lit", x |-> "sent"]>>],
       [desc |-> [fq |-> <<"namespace", "NDBInfo", <<"transporters_bytes_total">>>>, help |-> <<"The total amount of bytes sent/received using this connection by node_id/remote_node_id/status/remote_address/action.">>, labels |-> <<"node_id", "remote_node_id", "status", "remote_address", "action">>],
        vtype |-> "CounterValue", value |-> [k |-> "var", x |-> "bytesReceived"],
        labels |-> <<[k |-> "var", x |-> "nodeID"], [k |-> "var", x |-> "remoteNodeID"], [k |-> "var", x |-> "status"], [k |-> "var", x |-> "remoteAddress"], [k |-> "lit", x |-> "received"]>>],
       [desc |-> [fq |-> <<"namespace", "NDBInfo", <<"transporters_count_total">>>>, help |-> <<"The total amount of times action has happened on this transporter by node_id/remote_node_id/status/remote_address/action.">>, labels |-> <<"node_id", "remote_node_id", "status", "remote_address", "action">>],
        vtype |-> "CounterValue", value |-> [k |-> "var", x |-> "connectCount"],
        labels |-> <<[k |-> "var", x |-> "nodeID"], [k |-> "var", x |-> "remoteNodeID"], [k |-> "var", x |-> "status"], [k |-> "var", x |-> "remoteAddress"], [k |-> "lit", x |-> "connect"]>>],
       [desc |-> [fq |-> <<"namespace", "NDBInfo", <<"transporters_state">>>>, help |-> <<"Whether transporter has state (1) or not (0) by node_id/remote_node_id/status/remote_address/state.">>, labels |-> <<"node_id", "remote_node_id", "status", "remote_address", "state">>],
        vtype |-> "GaugeValue", value |-> [k |-> "var", x |-> "overloaded"],
        labels |-> <<[k |-> "var", x |-> "nodeID"], [k |-> "var", x |-> "remoteNodeID"], [k |-> "var", x |-> "status"], [k |-> "var", x |-> "remoteAddress"], [k |-> "lit", x |-> "overload"]>>],
       [desc |-> [fq |-> <<"namespace", "NDBInfo", <<"transporters_count_total">>>>, help |-> <<"The total amount of times action has happened on this transporter by node_id/remote_node_id/status/remote_address/action.">>, labels |-> <<"node_id", "remote_node_id", "status", "remote_address", "action">>],
        vtype |-> "CounterValue", value |-> [k |-> "var", x |-> "overloadCount"],
        labels |-> <<[k |-> "var", x |-> "nodeID"], [k |-> "var", x |-> "remoteNodeID"], [k |-> "var", x |-> "status"], [k |-> "var", x |-> "remoteAddress"], [k |-> "lit", x |-> "overload"]>>],
       [desc |-> [fq |-> <<"namespace", "NDBInfo", <<"transporters_state">>>>, help |-> <<"Whether transporter has state (1) or not (0) by node_id/remote_node_id/status/remote_address/state.">>, labels |-> <<"node_id", "remote_node_id", "status", "remote_address", "state">>],
        vtype |-> "GaugeValue", value |-> [k |-> "var", x |-> "slowdown"],
        labels |-> <<[k |-> "var", x |-> "nodeID"], [k |-> "var", x |-> "remoteNodeID"], [k |-> "var", x |-> "status"], [k |-> "var", x |-> "remoteAddress"], [k |-> "lit", x |-> "slowdown"]>>],
       [desc |-> [fq |-> <<"namespace", "NDBInfo", <<"transporters_count_total">>>>, help |-> <<"The total amount of times action has happened on this transporter by node_id/remote_node_id/status/remote_address/action.">>, labels |-> <<"node_id", "remote_node_id", "status", "remote_address", "action">>],
        vtype |-> "CounterValue", value |-> [k |-> "var", x |-> "slowdownCount"],
        labels |-> <<[k |-> "var", x |-> "nodeID"], [k |-> "var", x |-> "remoteNodeID"], [k |-> "var", x |-> "status"], [k |-> "var", x |-> "remoteAddress"], [k |-> "lit", x |-> "slowdown"]>>]>>]

ScrapePerfNDBSyncExcludedObjects ==
  [name |-> <<"performanceSchema", ".ndb_sync_excluded_objects">>,
   version |-> 80,
   columns |-> <<
      [name |-> "SCHEMA_NAME", nullable |-> TRUE, dflt |-> <<StrVal("")>>],
      [name |-> "NAME", nullable |-> TRUE, dflt |-> <<StrVal("")>>],
      [name |-> "TYPE", nullable |-> TRUE, dflt |-> <<>>],
      [name |-> "REASON", nullable |-> TRUE, dflt |-> <<>>]>>,
   dests |-> <<"schemaName", "name", "objType", "reason">>,
   types |-> <<"string", "string", "string", "string">>,
   dynamic |-> FALSE,
   errSends |-> <<>>,
   rowSends |-> <<
       [desc |-> [fq |-> <<"namespace", "performanceSchema", <<"ndb_sync_excluded_objects">>>>, help |-> <<"Returns 1 if query is successful, 0 if error encountered.">>, labels |-> <<"schema_name", "name", "type", "reason">>],
        vtype |-> "UntypedValue", value |-> [k |-> "const", x |-> "1"],
        labels |-> <<[k |-> "var", x |-> "schemaName"], [k |-> "var", x |-> "name"], [k |-> "var", x |-> "objType"], [k |-> "var", x |-> "reason"]>>]>>]

ScrapeNDBInfoDiskWriteSpeedAggregate ==
  [name |-> <<"NDBInfo", ".disk_write_speed_aggregate">>,
   version |-> 80,
   columns |-> <<
      [name |-> "node_id", nullable |-> TRUE, dflt |-> <<>>],
      [name |-> "thr_no", nullable |-> TRUE, dflt |-> <<>>],
      [name |-> "backup_lcp_speed_last_sec", nullable |-> TRUE, dflt |-> <<>>],
      [name |-> "redo_speed_last_sec", nullable |-> TRUE, dflt |-> <<>>],
      [name |-> "backup_lcp_speed_last_10sec", nullable |-> TRUE, dflt |-> <<>>],
      [name |-> "redo_speed_last_10sec", nullable |-> TRUE, dflt |-> <<>>],
      [name |-> "std_dev_backup_lcp_speed_last_10sec", nullable |-> TRUE, dflt |-> <<>>],
      [name |-> "std_dev_redo_speed_last_10sec", nullable |-> TRUE, dflt |-> <<>>],
      [name |-> "backup_lcp_speed_last_60sec", nullable |-> TRUE, dflt |-> <<>>],
      [name |-> "redo_speed_last_60sec", nullable |-> TRUE, dflt |-> <<>>],
      [name |-> "std_dev_backup_lcp_speed_last_60sec", nullable |-> TRUE, dflt |-> <<>>],
      [name |-> "std_dev_redo_speed_last_60sec", nullable |-> TRUE, dflt |-> <<>>],
      [name |-> "slowdowns_due_to_io_lag", nullable |-> TRUE, dflt |-> <<>>],
      [name |-> "slowdowns_due_to_high_cpu", nullable |-> TRUE, dflt |-> <<>>],
      [name |-> "disk_write_speed_set_to_min", nullable |-> TRUE, dflt |-> <<>>],
      [name |-> "current_target_disk_write_speed", nullable |-> TRUE, dflt |-> <<>>]>>,
   dests |-> <<"nodeID", "thrNo", "backupLCPSpeedLastSec", "redoSpeedLastSec", "backupLCPSpeedLast10sec", "redoSpeedLast10sec", "stdDevBackupLCPSpeedLast10sec", "stdDevREDOSpeedLast10sec", "backupLCPSpeedLast60sec", "redoSpeedLast60sec", "stdDevBackupLCPSpeedLast60sec", "stdDevREDOSpeedLast60sec", "slowdownsDueToIoLag", "slowdownsDueToHighCPU", "diskWriteSpeedSetToMin", "currentTargetDiskWriteSpeed">>,
   types |-> <<"string", "string", "uint64", "uint64", "uint64", "uint64", "uint64", "uint64", "uint64", "uint64", "uint64", "uint64", "uint64", "uint64", "uint64", "uint64">>,
   dynamic |-> FALSE,
   errSends |-> <<>>,
   rowSends |-> <<
       [desc |-> [fq |-> <<"namespace", "NDBInfo", <<"disk_write_speed_aggregate_backup_lcp_speed">>>>, help |-> <<"The amount of bytes written to disk by backup and LCP processes in the last time interval by node_id/thr_no/time.">>, labels |-> <<"node_id", "thr_no", "time">>],
        vtype |-> "GaugeValue", value |-> [k |-> "var", x |-> "backupLCPSpeedLastSec"],
        labels |-> <<[k |-> "var", x |-> "nodeID"], [k |-> "var", x |-> "thrNo"], [k |-> "lit", x |-> "sec"]>>],
       [desc |-> [fq |-> <<"namespace", "NDBInfo", <<"disk_write_speed_aggregate_backup_lcp_speed">>>>, help |-> <<"The amount of bytes written to disk by backup and LCP processes in the last time interval by node_id/thr_no/time.">>, labels |-> <<"node_id", "thr_no", "time">>],
        vtype |-> "GaugeValue", value |-> [k |-> "var", x |-> "backupLCPSpeedLast10sec"],
        labels |-> <<[k |-> "var", x |-> "nodeID"], [k |-> "var", x |-> "thrNo"], [k |-> "lit", x |-> "10sec"]>>],
       [desc |-> [fq |-> <<"namespace", "NDBInfo", <<"disk_write_speed_aggregate_backup_lcp_speed">>>>, help |-> <<"The amount of bytes written to disk by backup and LCP processes in the last time interval by node_id/thr_no/time.">>, labels |-> <<"node_id", "thr_no", "time">>],
        vtype |-> "GaugeValue", value |-> [k |-> "var", x |-> "backupLCPSpeedLast60sec"],
        labels |-> <<[k |-> "var", x |-> "nodeID"], [k |-> "var", x |-> "thrNo"], [k |-> "lit", x |-> "60sec"]>>],
       [desc |-> [fq |-> <<"namespace", "NDBInfo", <<"disk_write_speed_aggregate_redo_speed">>>>, help |-> <<"The amount of bytes written to REDO log in the last time interval by node_id/thr_no/time.">>, labels |-> <<"node_id", "thr_no", "time">>],
        vtype |-> "GaugeValue", value |-> [k |-> "var", x |-> "redoSpeedLastSec"],
        labels |-> <<[k |-> "var", x |-> "nodeID"], [k |-> "var", x |-> "thrNo"], [k |-> "lit", x |-> "sec"]>>],
       [desc |-> [fq |-> <<"namespace", "NDBInfo", <<"disk_write_speed_aggregate_redo_speed">>>>, help |-> <<"The amount of bytes written to REDO log in the last time interval by node_id/thr_no/time.">>, labels |-> <<"node_id", "thr_no", "time">>],
        vtype |-> "GaugeValue", value |-> [k |-> "var", x |-> "redoSpeedLast10sec"],
        labels |-> <<[k |-> "var", x |-> "nodeID"], [k |-> "var", x |-> "thrNo"], [k |-> "lit", x |-> "10sec"]>>],
       [desc |-> [fq |-> <<"namespace", "NDBInfo", <<"disk_write_speed_aggregate_redo_speed">>>>, help |-> <<"The amount of bytes written to REDO log in the last time interval by node_id/thr_no/time.">>, labels |-> <<"node_id", "thr_no", "time">>],
        vtype |-> "GaugeValue", value |-> [k |-> "var", x |-> "redoSpeedLast60sec"],
        labels |-> <<[k |-> "var", x |-> "nodeID"], [k |-> "var", x |-> "thrNo"], [k |-> "lit", x |-> "60sec"]>>],
       [desc |-> [fq |-> <<"namespace", "NDBInfo", <<"disk_write_speed_aggregate_std_dev_backup_lcp_speed">>>>, help |-> <<"Standard deviation in number of bytes written to disk by backup and LCP processes per second, averaged over the last x seconds by node_id/thr_no/time.">>, labels |-> <<"node_id", "thr_no", "time">>],
        vtype |-> "GaugeValue", value |-> [k |-> "var", x |-> "stdDevBackupLCPSpeedLast10sec"],
        labels |-> <<[k |-> "var", x |-> "nodeID"], [k |-> "var", x |-> "thrNo"], [k |-> "lit", x |-> "10sec"]>>],
       [desc |-> [fq |-> <<"namespace", "NDBInfo", <<"disk_write_speed_aggregate_std_dev_backup_lcp_speed">>>>, help |-> <<"Standard deviation in number of bytes written to disk by backup and LCP processes per second, averaged over the last x seconds by node_id/thr_no/time.">>, labels |-> <<"node_id", "thr_no", "time">>],
        vtype |-> "GaugeValue", value |-> [k |-> "var", x |-> "stdDevBackupLCPSpeedLast60sec"],
        labels |-> <<[k |-> "var", x |-> "nodeID"], [k |-> "var", x |-> "thrNo"], [k |-> "lit", x |-> "60sec"]>>],
       [desc |-> [fq |-> <<"namespace", "NDBInfo", <<"disk_write_speed_aggregate_std_dev_redo_speed">>>>, help |-> <<"Standard deviation in number of bytes written to REDO log per second, averaged over the last x seconds by node_id/thr_no/time.">>, labels |-> <<"node_id", "thr_no", "time">>],
        vtype |-> "GaugeValue", value |-> [k |-> "var", x |-> "stdDevREDOSpeedLast10sec"],
        labels |-> <<[k |-> "var", x |-> "nodeID"], [k |-> "var", x |-> "thrNo"], [k |-> "lit", x |-> "10sec"]>>],
       [desc |-> [fq |-> <<"namespace", "NDBInfo", <<"disk_write_speed_aggregate_std_dev_redo_speed">>>>, help |-> <<"Standard deviation in number of bytes written to REDO log per second, averaged over the last x seconds by node_id/thr_no/time.">>, labels |-> <<"node_id", "thr_no", "time">>],
        vtype |-> "GaugeValue", value |-> [k |-> "var", x |-> "stdDevREDOSpeedLast60sec"],
        labels |-> <<[k |-> "var", x |-> "nodeID"], [k |-> "var", x |-> "thrNo"], [k |-> "lit", x |-> "60sec"]>>],
       [desc |-> [fq |-> <<"namespace", "NDBInfo", <<"disk_write_speed_aggregate_slowdowns">>>>, help |-> <<"The amount of seconds since last node start that disk writes were slowed due to reason by node_id/thr_no/reason.">>, labels |-> <<"node_id", "thr_no", "reason">>],
        vtype |-> "GaugeValue", value |-> [k |-> "var", x |-> "slowdownsDueToIoLag"],
        labels |-> <<[k |-> "var", x |-> "nodeID"], [k |-> "var", x |-> "thrNo"], [k |-> "lit", x |-> "io_lag"]>>],
       [desc |-> [fq |-> <<"namespace", "NDBInfo", <<"disk_write_speed_aggregate_slowdowns">>>>, help |-> <<"The amount of seconds since last node start that disk writes were slowed due to reason by node_id/thr_no/reason.">>, labels |-> <<"node_id", "thr_no", "reason">>],
        vtype |-> "GaugeValue", value |-> [k |-> "var", x |-> "slowdownsDueToHighCPU"],
        labels |-> <<[k |-> "var", x |-> "nodeID"], [k |-> "var", x |-> "thrNo"], [k |-> "lit", x |-> "high_cpu"]>>],
       [desc |-> [fq |-> <<"namespace", "NDBInfo", <<"disk_write_speed_aggregate_disk_write_speed_set_to_min">>>>, help |-> <<"The amount of seconds since last node start that disk write speed was set to minimum by node_id/thr_no.">>, labels |-> <<"node_id", "thr_no">>],
        vtype |-> "GaugeValue", value |-> [k |-> "var", x |-> "diskWriteSpeedSetToMin"],
        labels |-> <<[k |-> "var", x |-> "nodeID"], [k |-> "var", x |-> "thrNo"]>>],
       [desc |-> [fq |-> <<"namespace", "NDBInfo", <<"disk_write_speed_aggregate_current_target_disk_write_speed">>>>, help |-> <<"The actual speed of disk writes (aggregated) by node_id/thr_no.">>, labels |-> <<"node_id", "thr_no">>],
        vtype |-> "GaugeValue", value |-> [k |-> "var", x |-> "currentTargetDiskWriteSpeed"],
        labels |-> <<[k |-> "var", x |-> "nodeID"], [k |-> "var", x |-> "thrNo"]>>]>>]

ScrapeNDBInfoArbValDet ==
  [name |-> <<"NDBInfo", ".arbitrator_validity_detail">>,
   version |-> 80,
   columns |-> <<
      [name |-> "node_id", nullable |-> TRUE, dflt |-> <<>>],
      [name |-> "arbitrator", nullable |-> TRUE, dflt |-> <<>>],
      [name |-> "arb_ticket", nullable |-> TRUE, dflt |-> <<>>],
      [name |-> "arb_connected", nullable |-> TRUE, dflt |-> <<>>],
      [name |-> "arb_state", nullable |-> TRUE, dflt |-> <<>>]>>,
   dests |-> <<"nodeID", "arbitrator", "arbTicket", "connected", "state">>,
   types |-> <<"string", "uint64", "string", "string", "string">>,
   dynamic |-> FALSE,
   errSends |-> <<>>,
   rowSends |-> <<
       [desc |-> [fq |-> <<"namespace", "NDBInfo", <<"arbitrator_validity_detail_arbitrator">>>>, help |-> <<"The arbitrator id by node_id/arb_ticket/arb_connected/arb_state.">>, labels |-> <<"node_id", "arb_ticket", "arb_connected", "arb_state">>],
        vtype |-> "GaugeValue", value |-> [k |-> "var", x |-> "arbitrator"],
        labels |-> <<[k |-> "var", x |-> "nodeID"], [k |-> "var", x |-> "arbTicket"], [k |-> "var", x |-> "connected"], [k |-> "var", x |-> "state"]>>]>>]

ScrapeNDBInfoTableReplicas ==
  [name |-> <<"NDBInfo", ".table_replicas">>,
   version |-> 80,
   columns |-> <<
      [name |-> "node_id", nullable |-> TRUE, dflt |-> <<>>],
      [name |-> "table_id", nullable |-> TRUE, dflt |-> <<>>],
      [name |-> "fragment_id", nullable |-> TRUE, dflt |-> <<>>],
      [name |-> "initial_gci", nullable |-> TRUE, dflt |-> <<>>],
      [name |-> "replica_node_id", nullable |-> TRUE, dflt |-> <<>>],
      [name |-> "is_lcp_ongoing", nullable |-> TRUE, dflt |-> <<>>],
      [name |-> "num_crashed_replicas", nullable |-> TRUE, dflt |-> <<>>],
      [name |-> "last_max_gci_started", nullable |-> TRUE, dflt |-> <<>>],
      [name |-> "last_max_gci_completed", nullable |-> TRUE, dflt |-> <<>>],
      [name |-> "last_lcp_id", nullable |-> TRUE, dflt |-> <<>>],
      [name |-> "prev_lcp_id", nullable |-> TRUE, dflt |-> <<>>],
      [name |-> "prev_max_gci_started", nullable |-> TRUE, dflt |-> <<>>],
      [name |-> "prev_max_gci_completed", nullable |-> TRUE, dflt |-> <<>>],
      [name |-> "last_create_gci", nullable |-> TRUE, dflt |-> <<>>],
      [name |-> "last_replica_gci", nullable |-> TRUE, dflt |-> <<>>],
      [name |-> "is_replica_alive", nullable |-> TRUE, dflt |-> <<>>]>>,
   dests |-> <<"nodeID", "tableID", "fragmentId", "initialGCI", "replicaNodeId", "isLCPOngoing", "numCrashedReplicas", "lastMaxGCIStarted", "lastMaxGCICompleted", "lastLCPId", "prevLCPId", "prevMaxGCIStarted", "prevMaxGCICompleted", "lastCreateGCI", "lastReplicaGCI", "isReplicaAlive">>,
   types |-> <<"string", "string", "string", "string", "string", "uint64", "uint64", "uint64", "uint64", "uint64", "uint64", "uint64", "uint64", "uint64", "uint64", "uint64">>,
   dynamic |-> FALSE,
   errSends |-> <<>>,
   rowSends |-> <<
       [desc |-> [fq |-> <<"namespace", "NDBInfo", <<"table_replicas_is_replica_alive">>>>, help |-> <<"Indicates if the replica is alive (1) or not (0) by node_id/table_id/fragment_id/replica_node_id.">>, labels |-> <<"node_id", "table_id", "fragment_id", "initial_gci", "replica_node_id">>],
        vtype |-> "GaugeValue", value |-> [k |-> "var", x |-> "isReplicaAlive"],
        labels |-> <<[k |-> "var", x |-> "nodeID"], [k |-> "var", x |-> "tableID"], [k |-> "var", x |-> "fragmentId"], [k |-> "var", x |-> "initialGCI"], [k |-> "var", x |-> "replicaNodeId"]>>],
       [desc |-> [fq |-> <<"namespace", "NDBInfo", <<"table_replicas_num_crashed">>>>, help |-> <<"Number of crashed replicas by node_id/table_id/fragment_id/initial_gci/replica_node_id.">>, labels |-> <<"node_id", "table_id", "fragment_id", "initial_gci", "replica_node_id">>],
        vtype |-> "GaugeValue", value |-> [k |-> "var", x |-> "numCrashedReplicas"],
        labels |-> <<[k |-> "var", x |-> "nodeID"], [k |-> "var", x |-> "tableID"], [k |-> "var", x |-> "fragmentId"], [k |-> "var", x |-> "initialGCI"], [k |-> "var", x |-> "replicaNodeId"]>>],
       [desc |-> [fq |-> <<"namespace", "NDBInfo", <<"table_replicas_is_lcp_ongoing">>>>, help |-> <<"Is 1 if LCP is ongoing on this fragment, 0 otherwise by node_id/table_id/fragment_id/initial_gci/replica_node_id.">>, labels |-> <<"node_id", "table_id", "fragment_id", "initial_gci", "replica_node_id">>],
        vtype |-> "GaugeValue", value |-> [k |-> "var", x |-> "isLCPOngoing"],
        labels |-> <<[k |-> "var", x |-> "nodeID"], [k |-> "var", x |-> "tableID"], [k |-> "var", x |-> "fragmentId"], [k |-> "var", x |-> "initialGCI"], [k |-> "var", x |-> "replicaNodeId"]>>],
       [desc |-> [fq |-> <<"namespace", "NDBInfo", <<"table_replicas_lcp">>>>, help |-> <<"Last / previous LCP ID by node_id/table_id/fragment_id/initial_gci/replica_node_id/type.">>, labels |-> <<"node_id", "table_id", "fragment_id", "initial_gci", "replica_node_id", "type">>],
        vtype |-> "GaugeValue", value |-> [k |-> "var", x |-> "lastLCPId"],
        labels |-> <<[k |-> "var", x |-> "nodeID"], [k |-> "var", x |-> "tableID"], [k |-> "var", x |-> "fragmentId"], [k |-> "var", x |-> "initialGCI"], [k |-> "var", x |-> "replicaNodeId"], [k |-> "lit", x |-> "last_lcp_id"]>>],
       [desc |-> [fq |-> <<"namespace", "NDBInfo", <<"table_replicas_lcp">>>>, help |-> <<"Last / previous LCP ID by node_id/table_id/fragment_id/initial_gci/replica_node_id/type.">>, labels |-> <<"node_id", "table_id", "fragment_id", "initial_gci", "replica_node_id", "type">>],
        vtype |-> "GaugeValue", value |-> [k |-> "var", x |-> "prevLCPId"],
        labels |-> <<[k |-> "var", x |-> "nodeID"], [k |-> "var", x |-> "tableID"], [k |-> "var", x |-> "fragmentId"], [k |-> "var", x |-> "initialGCI"], [k |-> "var", x |-> "replicaNodeId"], [k |-> "lit", x |-> "prev_lcp_id"]>>],
       [desc |-> [fq |-> <<"namespace", "NDBInfo", <<"table_replicas_gci">>>>, help |-> <<"Highest / Last GCI started by node_id/table_id/fragment_id/initial_gci/replica_node_id/type.">>, labels |-> <<"node_id", "table_id", "fragment_id", "initial_gci", "replica_node_id", "type">>],
        vtype |-> "GaugeValue", value |-> [k |-> "var", x |-> "lastMaxGCIStarted"],
        labels |-> <<[k |-> "var", x |-> "nodeID"], [k |-> "var", x |-> "tableID"], [k |-> "var", x |-> "fragmentId"], [k |-> "var", x |-> "initialGCI"], [k |-> "var", x |-> "replicaNodeId"], [k |-> "lit", x |-> "last_max_gci_started"]>>],
       [desc |-> [fq |-> <<"namespace", "NDBInfo", <<"table_replicas_gci">>>>, help |-> <<"Highest / Last GCI started by node_id/table_id/fragment_id/initial_gci/replica_node_id/type.">>, labels |-> <<"node_id", "table_id", "fragment_id", "initial_gci", "replica_node_id", "type">>],
        vtype |-> "GaugeValue", value |-> [k |-> "var", x |-> "lastMaxGCICompleted"],
        labels |-> <<[k |-> "var", x |-> "nodeID"], [k |-> "var", x |-> "tableID"], [k |-> "var", x |-> "fragmentId"], [k |-> "var", x |-> "initialGCI"], [k |-> "var", x |-> "replicaNodeId"], [k |-> "lit", x |-> "last_max_gci_completed"]>>],
       [desc |-> [fq |-> <<"namespace", "NDBInfo", <<"table_replicas_gci">>>>, help |-> <<"Highest / Last GCI started by node_id/table_id/fragment_id/initial_gci/replica_node_id/type.">>, labels |-> <<"node_id", "table_id", "fragment_id", "initial_gci", "replica_node_id", "type">>],
        vtype |-> "GaugeValue", value |-> [k |-> "var", x |-> "prevMaxGCIStarted"],
        labels |-> <<[k |-> "var", x |-> "nodeID"], [k |-> "var", x |-> "tableID"], [k |-> "var", x |-> "fragmentId"], [k |-> "var", x |-> "initialGCI"], [k |-> "var", x |-> "replicaNodeId"], [k |-> "lit", x |-> "prev_max_gci_started"]>>],
       [desc |-> [fq |-> <<"namespace", "NDBInfo", <<"table_replicas_gci">>>>, help |-> <<"Highest / Last GCI started by node_id/table_id/fragment_id/initial_gci/replica_node_id/type.">>, labels |-> <<"node_id", "table_id", "fragment_id", "initial_gci", "replica_node_id", "type">>],
        vtype |-> "GaugeValue", value |-> [k |-> "var", x |-> "prevMaxGCICompleted"],
        labels |-> <<[k |-> "var", x |-> "nodeID"], [k |-> "var", x |-> "tableID"], [k |-> "var", x |-> "fragmentId"], [k |-> "var", x |-> "initialGCI"], [k |-> "var", x |-> "replicaNodeId"], [k |-> "lit", x |-> "prev_max_gci_completed"]>>],
       [desc |-> [fq |-> <<"namespace", "NDBInfo", <<"table_replicas_gci">>>>, help |-> <<"Highest / Last GCI started by node_id/table_id/fragment_id/initial_gci/replica_node_id/type.">>, labels |-> <<"node_id", "table_id", "fragment_id", "initial_gci", "replica_node_id", "type">>],
        vtype |-> "GaugeValue", value |-> [k |-> "var", x |-> "lastCreateGCI"],
        labels |-> <<[k |-> "var", x |-> "nodeID"], [k |-> "var", x |-> "tableID"], [k |-> "var", x |-> "fragmentId"], [k |-> "var", x |-> "initialGCI"], [k |-> "var", x |-> "replicaNodeId"], [k |-> "lit", x |-> "last_create_gci"]>>],
       [desc |-> [fq |-> <<"namespace", "NDBInfo", <<"table_replicas_gci">>>>, help |-> <<"Highest / Last GCI started by node_id/table_id/fragment_id/initial_gci/replica_node_id/type.">>, labels |-> <<"node_id", "table_id", "fragment_id", "initial_gci", "replica_node_id", "type">>],
        vtype |-> "GaugeValue", value |-> [k |-> "var", x |-> "lastReplicaGCI"],
        labels |-> <<[k |-> "var", x |-> "nodeID"], [k |-> "var", x |-> "tableID"], [k |-> "var", x |-> "fragmentId"], [k |-> "var", x |-> "initialGCI"], [k |-> "var", x |-> "replicaNodeId"], [k |-> "lit", x |-> "last_replica_gci"]>>]>>]

ScrapeNDBInfoThreadBlocks ==
  [name |-> <<"NDBInfo", ".threadblocks">>,
   version |-> 80,
   columns |-> <<
      [name |-> "node_id", nullable |-> TRUE, dflt |-> <<>>],
      [name |-> "thr_no", nullable |-> TRUE, dflt |-> <<>>],
      [name |-> "block_name", nullable |-> TRUE, dflt |-> <<>>],
      [name |-> "block_instance", nullable |-> TRUE, dflt |-> <<>>]>>,
   dests |-> <<"nodeID", "thrNo", "blockName", "blockInstance">>,
   types |-> <<"string", "string", "string", "string">>,
   dynamic |-> FALSE,
   errSends |-> <<>>,
   rowSends |-> <<
       [desc |-> [fq |-> <<"namespace", "NDBInfo", <<"threadblocks">>>>, help |-> <<"Returns 1 if query is successful, 0 if error encountered.">>, labels |-> <<"node_id", "thr_no", "block_name", "block_instance">>],
        vtype |-> "UntypedValue", value |-> [k |-> "const", x |-> "1"],
        labels |-> <<[k |-> "var", x |-> "nodeID"], [k |-> "var", x |-> "thrNo"], [k |-> "var", x |-> "blockName"], [k |-> "var", x |-> "blockInstance"]>>]>>]

ScrapeNDBInfoPGManTimeTrackStats ==
  [name |-> <<"NDBInfo", ".pgman_time_track_stats">>,
   version |-> 80,
   columns |-> <<
      [name |-> "node_id", nullable |-> TRUE, dflt |-> <<>>],
      [name |-> "block_number", nullable |-> TRUE, dflt |-> <<>>],
      [name |-> "block_instance", nullable |-> TRUE, dflt |-> <<>>],
      [name |-> "upper_bound", nullable |-> TRUE, dflt |-> <<>>],
      [name |-> "page_reads", nullable |-> TRUE, dflt |-> <<>>],
      [name |-> "page_writes", nullable |-> TRUE, dflt |-> <<>>],
      [name |-> "log_waits", nullable |-> TRUE, dflt |-> <<>>],
      [name |-> "get_page", nullable |-> TRUE, dflt |-> <<>>]>>,
   dests |-> <<"nodeID", "blockNumber", "blockInstance", "upperBound", "pageReads", "pageWrites", "logWaits", "getPage">>,
   types |-> <<"string", "string", "string", "string", "uint64", "uint64", "uint64", "uint64">>,
   dynamic |-> FALSE,
   errSends |-> <<>>,
   rowSends |-> <<
       [desc |-> [fq |-> <<"namespace", "NDBInfo", <<"pgman_time_track_stats_count">>>>, help |-> <<"Based on duration of action latency by node_id/block_number/block_instance/upper_bound/action.">>, labels |-> <<"node_id", "block_number", "block_instance", "upper_bound", "action">>],
        vtype |-> "CounterValue", value |-> [k |-> "var", x |-> "pageReads"],
        labels |-> <<[k |-> "var", x |-> "nodeID"], [k |-> "var", x |-> "blockNumber"], [k |-> "var", x |-> "blockInstance"], [k |-> "var", x |-> "upperBound"], [k |-> "lit", x |-> "page_reads"]>>],
       [desc |-> [fq |-> <<"namespace", "NDBInfo", <<"pgman_time_track_stats_count">>>>, help |-> <<"Based on duration of action latency by node_id/block_number/block_instance/upper_bound/action.">>, labels |-> <<"node_id", "block_number", "block_instance", "upper_bound", "action">>],
        vtype |-> "CounterValue", value |-> [k |-> "var", x |-> "pageWrites"],
        labels |-> <<[k |-> "var", x |-> "nodeID"], [k |-> "var", x |-> "blockNumber"], [k |-> "var", x |-> "blockInstance"], [k |-> "var", x |-> "upperBound"], [k |-> "lit", x |-> "page_writes"]>>],
       [desc |-> [fq |-> <<"namespace", "NDBInfo", <<"pgman_time_track_stats_count">>>>, help |-> <<"Based on duration of action latency by node_id/block_number/block_instance/upper_bound/action.">>, labels |-> <<"node_id", "block_number", "block_instance", "upper_bound", "action">>],
        vtype |-> "CounterValue", value |-> [k |-> "var", x |-> "logWaits"],
        labels |-> <<[k |-> "var", x |-> "nodeID"], [k |-> "var", x |-> "blockNumber"], [k |-> "var", x |-> "blockInstance"], [k |-> "var", x |-> "upperBound"], [k |-> "lit", x |-> "log_waits"]>>],
       [desc |-> [fq |-> <<"namespace", "NDBInfo", <<"pgman_time_track_stats_count">>>>, help |-> <<"Based on duration of action latency by node_id/block_number/block_instance/upper_bound/action.">>, labels |-> <<"node_id", "block_number", "block_instance", "upper_bound", "action">>],
        vtype |-> "CounterValue", value |-> [k |-> "var", x |-> "getPage"],
        labels |-> <<[k |-> "var", x |-> "nodeID"], [k |-> "var", x |-> "blockNumber"], [k |-> "var", x |-> "blockInstance"], [k |-> "var", x |-> "upperBound"], [k |-> "lit", x |-> "get_page"]>>]>>]

ScrapeNDBInfoDictObjInfo ==
  [name |-> <<"NDBInfo", ".dict_obj_info">>,
   version |-> 80,
   columns |-> <<
      [name |-> "type", nullable |-> TRUE, dflt |-> <<>>],
      [name |-> "id", nullable |-> TRUE, dflt |-> <<>>],
      [name |-> "version", nullable |-> TRUE, dflt |-> <<>>],
      [name |-> "state", nullable |-> TRUE, dflt |-> <<>>],
      [name |-> "parent_obj_type", nullable |-> TRUE, dflt |-> <<StrVal("0")>>],
      [name |-> "parent_obj_id", nullable |-> TRUE, dflt |-> <<>>],
      [name |-> "fq_name", nullable |-> TRUE, dflt |-> <<>>]>>,
   dests |-> <<"objType", "id", "version", "state", "parentObjType", "parentObjID", "fqName">>,
   types |-> <<"string", "string", "uint64", "uint64", "string", "string", "string">>,
   dynamic |-> FALSE,
   errSends |-> <<>>,
   rowSends |-> <<
       [desc |-> [fq |-> <<"namespace", "NDBInfo", <<"dict_obj_info_version">>>>, help |-> <<"The object version by type/id/parent_obj_type/parent_obj_id/fq_name.">>, labels |-> <<"type", "id", "parent_obj_type", "parent_obj_id", "fq_name">>],
        vtype |-> "GaugeValue", value |-> [k |-> "var", x |-> "version"],
        labels |-> <<[k |-> "var", x |-> "objType"], [k |-> "var", x |-> "id"], [k |-> "var", x |-> "parentObjType"], [k |-> "var", x |-> "parentObjID"], [k |-> "var", x |-> "fqName"]>>],
       [desc |-> [fq |-> <<"namespace", "NDBInfo", <<"dict_obj_info_state">>>>, help |-> <<"The object state by type/id/parent_obj_type/parent_obj_id/fq_name. For human presentation of states, see documentation.">>, labels |-> <<"type", "id", "parent_obj_type", "parent_obj_id", "fq_name">>],
        vtype |-> "GaugeValue", value |-> [k |-> "var", x |-> "state"],
        labels |-> <<[k |-> "var", x |-> "objType"], [k |-> "var", x |-> "id"], [k |-> "var", x |-> "parentObjType"], [k |-> "var", x |-> "parentObjID"], [k |-> "var", x |-> "fqName"]>>]>>]

ScrapeNDBInfoBlobs ==
  [name |-> <<"NDBInfo", ".blobs">>,
   version |-> 80,
   columns |-> <<
      [name |-> "table_id", nullable |-> TRUE, dflt |-> <<>>],
      [name |-> "database_name", nullable |-> TRUE, dflt |-> <<>>],
      [name |-> "table_name", nullable |-> TRUE, dflt |-> <<>>],
      [name |-> "column_id", nullable |-> TRUE, dflt |-> <<>>],
      [name |-> "inline_size", nullable |-> TRUE, dflt |-> <<>>],
      [name |-> "part_size", nullable |-> TRUE, dflt |-> <<>>],
      [name |-> "stripe_size", nullable |-> TRUE, dflt |-> <<>>]>>,
   dests |-> <<"tableID", "databaseName", "tableName", "columnID", "inlineSize", "partSize", "stripeSize">>,
   types |-> <<"string", "string", "string", "string", "uint64", "uint64", "uint64">>,
   dynamic |-> FALSE,
   errSends |-> <<>>,
   rowSends |-> <<
       [desc |-> [fq |-> <<"namespace", "NDBInfo", <<"blobs_size">>>>, help |-> <<"The size of blobs column by table_id/database_name/table_name/column_id/type.">>, labels |-> <<"table_id", "database_name", "table_name", "column_id", "type">>],
        vtype |-> "GaugeValue", value |-> [k |-> "var", x |-> "inlineSize"],
        labels |-> <<[k |-> "var", x |-> "tableID"], [k |-> "var", x |-> "databaseName"], [k |-> "var", x |-> "tableName"], [k |-> "var", x |-> "columnID"], [k |-> "lit", x |-> "inline"]>>],
       [desc |-> [fq |-> <<"namespace", "NDBInfo", <<"blobs_size">>>>, help |-> <<"The size of blobs column by table_id/database_name/table_name/column_id/type.">>, labels |-> <<"table_id", "database_name", "table_name", "column_id", "type">>],
        vtype |-> "GaugeValue", value |-> [k |-> "var", x |-> "partSize"],
        labels |-> <<[k |-> "var", x |-> "tableID"], [k |-> "var", x |-> "databaseName"], [k |-> "var", x |-> "tableName"], [k |-> "var", x |-> "columnID"], [k |-> "lit", x |-> "part"]>>],
       [desc |-> [fq |-> <<"namespace", "NDBInfo", <<"blobs_size">>>>, help |-> <<"The size of blobs column by table_id/database_name/table_name/column_id/type.">>, labels |-> <<"table_id", "database_name", "table_name", "column_id", "type">>],
        vtype |-> "GaugeValue", value |-> [k |-> "var", x |-> "stripeSize"],
        labels |-> <<[k |-> "var", x |-> "tableID"], [k |-> "var", x |-> "databaseName"], [k |-> "var", x |-> "tableName"], [k |-> "var", x |-> "columnID"], [k |-> "lit", x |-> "stripe"]>>]>>]

ScrapeNDBInfoTableDistributionStatus ==
  [name |-> <<"NDBInfo", ".table_distribution_status">>,
   version |-> 80,
   columns |-> <<
      [name |-> "node_id", nullable |-> TRUE, dflt |-> <<>>],
      [name |-> "table_id", nullable |-> TRUE, dflt |-> <<>>],
      [name |-> "tab_copy_status", nullable |-> TRUE, dflt |-> <<>>],
      [name |-> "tab_update_status", nullable |-> TRUE, dflt |-> <<>>],
      [name |-> "tab_lcp_status", nullable |-> TRUE, dflt |-> <<>>],
      [name |-> "tab_status", nullable |-> TRUE, dflt |-> <<>>],
      [name |-> "tab_storage", nullable |-> TRUE, dflt |-> <<>>],
      [name |-> "tab_partitions", nullable |-> TRUE, dflt |-> <<>>],
      [name |-> "tab_fragments", nullable |-> TRUE, dflt |-> <<>>],
      [name |-> "current_scan_count", nullable |-> TRUE, dflt |-> <<>>],
      [name |-> "scan_count_wait", nullable |-> TRUE, dflt |-> <<>>],
      [name |-> "is_reorg_ongoing", nullable |-> TRUE, dflt |-> <<>>]>>,
   dests |-> <<"nodeID", "tableID", "tabCopyStatus", "tabUpdateStatus", "tabLCPStatus", "tabStatus", "tabStorage", "tabPartitions", "tabFragments", "currentScanCount", "scanCountWait", "isReorgOngoing">>,
   types |-> <<"string", "string", "string", "string", "string", "string", "string", "string", "string", "uint64", "uint64", "uint64">>,
   dynamic |-> FALSE,
   errSends |-> <<>>,
   rowSends |-> <<
       [desc |-> [fq |-> <<"namespace", "NDBInfo", <<"table_distribution_status_current_scan_count">>>>, help |-> <<"The current number of active scans by node_id/table_id/tab_copy_status/tab_update_status/tab_lcp_status/tab_status/tab_storage/tab_partitions/tab_fragments">>, labels |-> <<"node_id", "table_id", "tab_copy_status", "tab_update_status", "tab_lcp_status", "tab_status", "tab_storage", "tab_partitions", "tab_fragments">>],
        vtype |-> "CounterValue", value |-> [k |-> "var", x |-> "currentScanCount"],
        labels |-> <<[k |-> "var", x |-> "nodeID"], [k |-> "var", x |-> "tableID"], [k |-> "var", x |-> "tabCopyStatus"], [k |-> "var", x |-> "tabUpdateStatus"], [k |-> "var", x |-> "tabLCPStatus"], [k |-> "var", x |-> "tabStatus"], [k |-> "var", x |-> "tabStorage"], [k |-> "var", x |-> "tabPartitions"], [k |-> "var", x |-> "tabFragments"]>>],
       [desc |-> [fq |-> <<"namespace", "NDBInfo", <<"table_distribution_status_scan_count_wait">>>>, help |-> <<"The current number of scans waiting to be performed before ALTER TABLE can complete by node_id/table_id/tab_copy_status/tab_update_status/tab_lcp_status/tab_status/tab_storage/tab_partitions/tab_fragments">>, labels |-> <<"node_id", "table_id", "tab_copy_status", "tab_update_status", "tab_lcp_status", "tab_status", "tab_storage", "tab_partitions", "tab_fragments">>],
        vtype |-> "CounterValue", value |-> [k |-> "var", x |-> "currentScanCount"],
        labels |-> <<[k |-> "var", x |-> "nodeID"], [k |-> "var", x |-> "tableID"], [k |-> "var", x |-> "tabCopyStatus"], [k |-> "var", x |-> "tabUpdateStatus"], [k |-> "var", x |-> "tabLCPStatus"], [k |-> "var", x |-> "tabStatus"], [k |-> "var", x |-> "tabStorage"], [k |-> "var", x |-> "tabPartitions"], [k |-> "var", x |-> "tabFragments"]>>],
       [desc |-> [fq |-> <<"namespace", "NDBInfo", <<"table_distribution_status_is_reorg_ongoing">>>>, help |-> <<"Whether the table is currently being reorganized (1 if true) by node_id/table_id/tab_copy_status/tab_update_status/tab_lcp_status/tab_status/tab_storage/tab_partitions/tab_fragments">>, labels |-> <<"node_id", "table_id", "tab_copy_status", "tab_update_status", "tab_lcp_status", "tab_status", "tab_storage", "tab_partitions", "tab_fragments">>],
        vtype |-> "CounterValue", value |-> [k |-> "var", x |-> "scanCountWait"],
        labels |-> <<[k |-> "var", x |-> "nodeID"], [k |-> "var", x |-> "tableID"], [k |-> "var", x |-> "tabCopyStatus"], [k |-> "var", x |-> "tabUpdateStatus"], [k |-> "var", x |-> "tabLCPStatus"], [k |-> "var", x |-> "tabStatus"], [k |-> "var", x |-> "tabStorage"], [k |-> "var", x |-> "tabPartitions"], [k |-> "var", x |-> "tabFragments"]>>]>>]

ScrapeNDBInfoCounters ==
  [name |-> <<"NDBInfo", ".counters">>,
   version |-> 80,
   columns |-> <<
      [name |-> "node_id", nullable |-> TRUE, dflt |-> <<>>],
      [name |-> "counter_name", nullable |-> TRUE, dflt |-> <<>>],
      [name |-> "val", nullable |-> TRUE, dflt |-> <<>>]>>,
   dests |-> <<"nodeID", "counterName", "val">>,
   types |-> <<"string", "string", "uint64">>,
   dynamic |-> TRUE,
   errSends |-> <<>>,
   rowSends |-> <<>>]

ScrapeNDBInfoMemoryUsage ==
  [name |-> <<"NDBInfo", ".memoryusage">>,
   version |-> 80,
   columns |-> <<
      [name |-> "node_id", nullable |-> TRUE, dflt |-> <<>>],
      [name |-> "memory_type", nullable |-> TRUE, dflt |-> <<>>],
      [name |-> "used", nullable |-> TRUE, dflt |-> <<>>],
      [name |-> "used_pages", nullable |-> TRUE, dflt |-> <<>>],
      [name |-> "total", nullable |-> TRUE, dflt |-> <<>>],
      [name |-> "total_pages", nullable |-> TRUE, dflt |-> <<>>]>>,
   dests |-> <<"nodeID", "memoryType", "used", "usedPages", "total", "totalPages">>,
   types |-> <<"string", "string", "uint64", "uint64", "uint64", "uint64">>,
   dynamic |-> FALSE,
   errSends |-> <<>>,
   rowSends |-> <<
       [desc |-> [fq |-> <<"namespace", "NDBInfo", <<"memoryusage_used_bytes">>>>, help |-> <<"The amount of bytes currently used for data memory or index memory by node_id/memory_type.">>, labels |-> <<"node_id", "memory_type">>],
        vtype |-> "GaugeValue", value |-> [k |-> "var", x |-> "used"],
        labels |-> <<[k |-> "var", x |-> "nodeID"], [k |-> "var", x |-> "memoryType"]>>],
       [desc |-> [fq |-> <<"namespace", "NDBInfo", <<"memoryusage_used_pages">>>>, help |-> <<"The amount of pages currently used for data memory or index memory by node_id/memory_type.">>, labels |-> <<"node_id", "memory_type">>],
        vtype |-> "GaugeValue", value |-> [k |-> "var", x |-> "usedPages"],
        labels |-> <<[k |-> "var", x |-> "nodeID"], [k |-> "var", x |-> "memoryType"]>>],
       [desc |-> [fq |-> <<"namespace", "NDBInfo", <<"memoryusage_available_bytes">>>>, help |-> <<"Total number of bytes of data memory or index memory available by node_id/memory_type.">>, labels |-> <<"node_id", "memory_type">>],
        vtype |-> "GaugeValue", value |-> [k |-> "var", x |-> "total"],
        labels |-> <<[k |-> "var", x |-> "nodeID"], [k |-> "var", x |-> "memoryType"]>>],
       [desc |-> [fq |-> <<"namespace", "NDBInfo", <<"memoryusage_available_pages">>>>, help |-> <<"The amount of memory pages available for data memory or index memory by node_id/memory_type.">>, labels |-> <<"node_id", "memory_type">>],
        vtype |-> "GaugeValue", value |-> [k |-> "var", x |-> "totalPages"],
        labels |-> <<[k |-> "var", x |-> "nodeID"], [k |-> "var", x |-> "memoryType"]>>]>>]

ScrapePerfNDBSyncPendingObjects ==
  [name |-> <<"performanceSchema", ".ndb_sync_pending_objects">>,
   version |-> 80,
   columns |-> <<
      [name |-> "SCHEMA_NAME", nullable |-> TRUE, dflt |-> <<StrVal("")>>],
      [name |-> "NAME", nullable |-> TRUE, dflt |-> <<StrVal("")>>],
      [name |-> "TYPE", nullable |-> TRUE, dflt |-> <<>>]>>,
   dests |-> <<"schemaName", "name", "objType">>,
   types |-> <<"string", "string", "string">>,
   dynamic |-> FALSE,
   errSends |-> <<>>,
   rowSends |-> <<
       [desc |-> [fq |-> <<"namespace", "performanceSchema", <<"ndb_sync_pending_objects">>>>, help |-> <<"Returns 1 if query is successful, 0 if error encountered.">>, labels |-> <<"schema_name", "name", "type">>],
        vtype |-> "UntypedValue", value |-> [k |-> "const", x |-> "1"],
        labels |-> <<[k |-> "var", x |-> "schemaName"], [k |-> "var", x |-> "name"], [k |-> "var", x |-> "objType"]>>]>>]

ScrapeNDBInfoProcesses ==
  [name |-> <<"NDBInfo", ".processes">>,
   version |-> 80,
   columns |-> <<
      [name |-> "node_id", nullable |-> TRUE, dflt |-> <<>>],
      [name |-> "node_type", nullable |-> TRUE, dflt |-> <<>>],
      [name |-> "node_version", nullable |-> TRUE, dflt |-> <<>>],
      [name |-> "process_id", nullable |-> TRUE, dflt |-> <<>>],
      [name |-> "angel_process_id", nullable |-> TRUE, dflt |-> <<NumVal("0")>>],
      [name |-> "process_name", nullable |-> TRUE, dflt |-> <<>>],
      [name |-> "service_URI", nullable |-> TRUE, dflt |-> <<>>]>>,
   dests |-> <<"nodeID", "nodeType", "nodeVersion", "processID", "angelProcessID", "processName", "serviceURI">>,
   types |-> <<"string", "string", "string", "string", "uint64", "string", "string">>,
   dynamic |-> FALSE,
   errSends |-> <<>>,
   rowSends |-> <<
       [desc |-> [fq |-> <<"namespace", "NDBInfo", <<"processes_angel_process_id">>>>, help |-> <<"Process ID of this node's angel process by node_id/node_type/node_version/process_id/process_name/service_URI. Returns 0 if no angel process is set.">>, labels |-> <<"node_id", "node_type", "node_version", "process_id", "process_name", "service_URI">>],
        vtype |-> "GaugeValue", value |-> [k |-> "var", x |-> "angelProcessID"],
        labels |-> <<[k |-> "var", x |-> "nodeID"], [k |-> "var", x |-> "nodeType"], [k |-> "var", x |-> "nodeVersion"], [k |-> "var", x |-> "processID"], [k |-> "var", x |-> "processName"], [k |-> "var", x |-> "serviceURI"]>>]>>]

ScrapeNDBInfoLogBuffers ==
  [name |-> <<"NDBInfo", ".logbuffers">>,
   version |-> 80,
   columns |-> <<
      [name |-> "node_id", nullable |-> TRUE, dflt |-> <<>>],
      [name |-> "log_type", nullable |-> TRUE, dflt |-> <<>>],
      [name |-> "log_id", nullable |-> TRUE, dflt |-> <<>>],
      [name |-> "log_part", nullable |-> TRUE, dflt |-> <<>>],
      [name |-> "total", nullable |-> TRUE, dflt |-> <<>>],
      [name |-> "used", nullable |-> TRUE, dflt |-> <<>>]>>,
   dests |-> <<"nodeID", "logType", "logID", "logPart", "total", "used">>,
   types |-> <<"string", "string", "string", "string", "uint64", "uint64">>,
   dynamic |-> FALSE,
   errSends |-> <<>>,
   rowSends |-> <<
       [desc |-> [fq |-> <<"namespace", "NDBInfo", <<"logbuffers_bytes_available">>>>, help |-> <<"The amount of total space available for this log in bytes by node_id/log_type/log_id/log_part.">>, labels |-> <<"node_id", "log_type", "log_id", "log_part">>],
        vtype |-> "GaugeValue", value |-> [k |-> "var", x |-> "total"],
        labels |-> <<[k |-> "var", x |-> "nodeID"], [k |-> "var", x |-> "logType"], [k |-> "var", x |-> "logID"], [k |-> "var", x |-> "logPart"]>>],
       [desc |-> [fq |-> <<"namespace", "NDBInfo", <<"logbuffers_bytes_used">>>>, help |-> <<"The amount of space used by this log in bytes by node_id/log_type/log_id/log_part.">>, labels |-> <<"node_id", "log_type", "log_id", "log_part">>],
        vtype |-> "GaugeValue", value |-> [k |-> "var", x |-> "used"],
        labels |-> <<[k |-> "var", x |-> "nodeID"], [k |-> "var", x |-> "logType"], [k |-> "var", x |-> "logID"], [k |-> "var", x |-> "logPart"]>>]>>]

ScrapeNDBInfoLogSpaces ==
  [name |-> <<"NDBInfo", ".logspaces">>,
   version |-> 80,
   columns |-> <<
      [name |-> "node_id", nullable |-> TRUE, dflt |-> <<>>],
      [name |-> "log_type", nullable |-> TRUE, dflt |-> <<>>],
      [name |-> "log_id", nullable |-> TRUE, dflt |-> <<>>],
      [name |-> "log_part", nullable |-> TRUE, dflt |-> <<>>],
      [name |-> "total", nullable |-> TRUE, dflt |-> <<>>],
      [name |-> "used", nullable |-> TRUE, dflt |-> <<>>]>>,
   dests |-> <<"nodeID", "logType", "logID", "logPart", "total", "used">>,
   types |-> <<"string", "string", "string", "string", "uint64", "uint64">>,
   dynamic |-> FALSE,
   errSends |-> <<>>,
   rowSends |-> <<
       [desc |-> [fq |-> <<"namespace", "NDBInfo", <<"logspaces_bytes_available">>>>, help |-> <<"The amount of total space available for this log in bytes by node_id/log_type/log_id/log_part.">>, labels |-> <<"node_id", "log_type", "log_id", "log_part">>],
        vtype |-> "GaugeValue", value |-> [k |-> "var", x |-> "total"],
        labels |-> <<[k |-> "var", x |-> "nodeID"], [k |-> "var", x |-> "logType"], [k |-> "var", x |-> "logID"], [k |-> "var", x |-> "logPart"]>>],
       [desc |-> [fq |-> <<"namespace", "NDBInfo", <<"logspaces_bytes_used">>>>, help |-> <<"The amount of space used by this log in bytes by node_id/log_type/log_id/log_part.">>, labels |-> <<"node_id", "log_type", "log_id", "log_part">>],
        vtype |-> "GaugeValue", value |-> [k |-> "var", x |-> "used"],
        labels |-> <<[k |-> "var", x |-> "nodeID"], [k |-> "var", x |-> "logType"], [k |-> "var", x |-> "logID"], [k |-> "var", x |-> "logPart"]>>]>>]

\* Map known counter names to types. Unknown types will be mapped as untyped.
ndbinfoCountersTypes ==
  "ATTRINFO" :> [vtype |-> "CounterValue", desc |-> [fq |-> <<"namespace", "NDBInfo", <<"counters_attrinfo_total">>>>, help |-> <<"The number of times an interpreted program is sent to the data node by node_id.">>, labels |-> <<"node_id">>]] @@
  "TRANSACTIONS" :> [vtype |-> "CounterValue", desc |-> [fq |-> <<"namespace", "NDBInfo", <<"counters_transactions_total">>>>, help |-> <<"The total number of transactions initiated by node_id.">>, labels |-> <<"node_id">>]] @@
  "COMMITS" :> [vtype |-> "CounterValue", desc |-> [fq |-> <<"namespace", "NDBInfo", <<"counters_commits_total">>>>, help |-> <<"The number of transactions that have been committed by node_id.">>, labels |-> <<"node_id">>]] @@
  "READS" :> [vtype |-> "CounterValue", desc |-> [fq |-> <<"namespace", "NDBInfo", <<"counters_reads_total">>>>, help |-> <<"The amount of all read operations by node_id.">>, labels |-> <<"node_id">>]] @@
  "SIMPLE_READS" :> [vtype |-> "CounterValue", desc |-> [fq |-> <<"namespace", "NDBInfo", <<"counters_simple_reads_total">>>>, help |-> <<"The amount of reads where the is both the beginning and ending operation for a given transaction by node_id.">>, labels |-> <<"node_id">>]] @@
  "WRITES" :> [vtype |-> "CounterValue", desc |-> [fq |-> <<"namespace", "NDBInfo", <<"counters_writes_total">>>>, help |-> <<"The amount of the writes by node_id.">>, labels |-> <<"node_id">>]] @@
  "ABORTS" :> [vtype |-> "CounterValue", desc |-> [fq |-> <<"namespace", "NDBInfo", <<"counters_aborts_total">>>>, help |-> <<"The amount of transactions that have been aborted by node_id.">>, labels |-> <<"node_id">>]] @@
  "TABLE_SCANS" :> [vtype |-> "CounterValue", desc |-> [fq |-> <<"namespace", "NDBInfo", <<"counters_table_scans_total">>>>, help |-> <<"The amount of table scan operations performed by node_id.">>, labels |-> <<"node_id">>]] @@
  "RANGE_SCANS" :> [vtype |-> "CounterValue", desc |-> [fq |-> <<"namespace", "NDBInfo", <<"counters_range_scans_total">>>>, help |-> <<"The amount of range scan operations performed by node_id.">>, labels |-> <<"node_id">>]] @@
  "OPERATIONS" :> [vtype |-> "CounterValue", desc |-> [fq |-> <<"namespace", "NDBInfo", <<"counters_operations_total">>>>, help |-> <<"The amount of operations processed by node_id.">>, labels |-> <<"node_id">>]] @@
  "READS_RECEIVED" :> [vtype |-> "CounterValue", desc |-> [fq |-> <<"namespace", "NDBInfo", <<"counters_reads_received_total">>>>, help |-> <<"The amount of read requests received by node_id.">>, labels |-> <<"node_id">>]] @@
  "LOCAL_READS_SENT" :> [vtype |-> "CounterValue", desc |-> [fq |-> <<"namespace", "NDBInfo", <<"counters_local_reads_sent_total">>>>, help |-> <<"The amount of local read requests sent by node_id.">>, labels |-> <<"node_id">>]] @@
  "REMOTE_READS_SENT" :> [vtype |-> "CounterValue", desc |-> [fq |-> <<"namespace", "NDBInfo", <<"counters_remote_reads_sent_total">>>>, help |-> <<"The amount of remote read requests sent by node_id.">>, labels |-> <<"node_id">>]] @@
  "READS_NOT_FOUND" :> [vtype |-> "CounterValue", desc |-> [fq |-> <<"namespace", "NDBInfo", <<"counters_reads_not_found_total">>>>, help |-> <<"The amount of read requests that did not find a matching record by node_id.">>, labels |-> <<"node_id">>]] @@
  "TABLE_SCANS_RECEIVED" :> [vtype |-> "CounterValue", desc |-> [fq |-> <<"namespace", "NDBInfo", <<"counters_table_scans_received_total">>>>, help |-> <<"The amount of table scan requests received by node_id.">>, labels |-> <<"node_id">>]] @@
  "LOCAL_TABLE_SCANS_SENT" :> [vtype |-> "CounterValue", desc |-> [fq |-> <<"namespace", "NDBInfo", <<"counters_local_table_scans_sent_total">>>>, help |-> <<"The amount of local table scan requests sent by node_id.">>, labels |-> <<"node_id">>]] @@
  "RANGE_SCANS_RECEIVED" :> [vtype |-> "CounterValue", desc |-> [fq |-> <<"namespace", "NDBInfo", <<"counters_range_scans_received_total">>>>, help |-> <<"The amount of range scan requests received by node_id.">>, labels |-> <<"node_id">>]] @@
  "LOCAL_RANGE_SCANS_SENT" :> [vtype |-> "CounterValue", desc |-> [fq |-> <<"namespace", "NDBInfo", <<"counters_local_range_scans_sent_total">>>>, help |-> <<"The amount of local range scan requests sent by node_id.">>, labels |-> <<"node_id">>]] @@
  "REMOTE_RANGE_SCANS_SENT" :> [vtype |-> "CounterValue", desc |-> [fq |-> <<"namespace", "NDBInfo", <<"counters_remote_range_scans_sent_total">>>>, help |-> <<"The amount of remote range scan requests sent by node_id.">>, labels |-> <<"node_id">>]] @@
  "SCAN_BATCHES_RETURNED" :> [vtype |-> "CounterValue", desc |-> [fq |-> <<"namespace", "NDBInfo", <<"counters_scan_batches_returned_total">>>>, help |-> <<"The amount of scan batches returned by node_id.">>, labels |-> <<"node_id">>]] @@
  "SCAN_ROWS_RETURNED" :> [vtype |-> "CounterValue", desc |-> [fq |-> <<"namespace", "NDBInfo", <<"counters_scan_rows_returned_total">>>>, help |-> <<"The amount of rows returned by scan operations by node_id.">>, labels |-> <<"node_id">>]] @@
  "PRUNED_RANGE_SCANS_RECEIVED" :> [vtype |-> "CounterValue", desc |-> [fq |-> <<"namespace", "NDBInfo", <<"counters_pruned_range_scans_received_total">>>>, help |-> <<"The amount of pruned range scan requests received by node_id.">>, labels |-> <<"node_id">>]] @@
  "CONST_PRUNED_RANGE_SCANS_RECEIVED" :> [vtype |-> "CounterValue", desc |-> [fq |-> <<"namespace", "NDBInfo", <<"counters_const_pruned_range_scans_received_total">>>>, help |-> <<"The amount of constant pruned range scan requests received by node_id.">>, labels |-> <<"node_id">>]] @@
  "LOCAL_READS" :> [vtype |-> "CounterValue", desc |-> [fq |-> <<"namespace", "NDBInfo", <<"counters_local_reads_total">>>>, help |-> <<"The amount of only those reads of the primary fragment replica on the same node as the transaction coordinator by node_id.">>, labels |-> <<"node_id">>]] @@
  "LOCAL_WRITES" :> [vtype |-> "CounterValue", desc |-> [fq |-> <<"namespace", "NDBInfo", <<"counters_local_writes_total">>>>, help |-> <<"The amount of primary-key write operations using a transaction coordinator in a node that also holds the primary fragment replica of the record by node_id.">>, labels |-> <<"node_id">>]] @@
  "LQHKEY_OVERLOAD" :> [vtype |-> "CounterValue", desc |-> [fq |-> <<"namespace", "NDBInfo", <<"counters_lqhkey_overload_total">>>>, help |-> <<"The amount of primary key requests rejected at the LQH block instance due to transporter overload by node_id.">>, labels |-> <<"node_id">>]] @@
  "LQHKEY_OVERLOAD_TC" :> [vtype |-> "CounterValue", desc |-> [fq |-> <<"namespace", "NDBInfo", <<"counters_lqhkey_overload_tc_total">>>>, help |-> <<"The amount of instances where the TC node transporter was overloaded by node_id.">>, labels |-> <<"node_id">>]] @@
  "LQHKEY_OVERLOAD_READER" :> [vtype |-> "CounterValue", desc |-> [fq |-> <<"namespace", "NDBInfo", <<"counters_lqhkey_overload_reader_total">>>>, help |-> <<"The amount of instances where the API reader (reads only) node was overloaded by node_id.">>, labels |-> <<"node_id">>]] @@
  "LQHKEY_OVERLOAD_NODE_PEER" :> [vtype |-> "CounterValue", desc |-> [fq |-> <<"namespace", "NDBInfo", <<"counters_lqhkey_overload_node_peer_total">>>>, help |-> <<"The amount of instances where the next backup data node (writes only) was overloaded by node_id.">>, labels |-> <<"node_id">>]] @@
  "LQHKEY_OVERLOAD_SUBSCRIBER" :> [vtype |-> "CounterValue", desc |-> [fq |-> <<"namespace", "NDBInfo", <<"counters_lqhkey_overload_subscriber_total">>>>, help |-> <<"The amount of instances where an event subscriber (writes only) was overloaded by node_id.">>, labels |-> <<"node_id">>]] @@
  "LQHSCAN_SLOWDOWNS" :> [vtype |-> "CounterValue", desc |-> [fq |-> <<"namespace", "NDBInfo", <<"counters_lqhkey_slowdowns_total">>>>, help |-> <<"The amount of instances where a fragment scan batch size was reduced due to scanning API transporter overload by node_id.">>, labels |-> <<"node_id">>]]

\* strings.ToLower on the counter names that occur.
LowerCase ==
  "ATTRINFO" :> "attrinfo" @@
  "TRANSACTIONS" :> "transactions" @@
  "COMMITS" :> "commits" @@
  "READS" :> "reads" @@
  "SIMPLE_READS" :> "simple_reads" @@
  "WRITES" :> "writes" @@
  "ABORTS" :> "aborts" @@
  "TABLE_SCANS" :> "table_scans" @@
  "RANGE_SCANS" :> "range_scans" @@
  "OPERATIONS" :> "operations" @@
  "READS_RECEIVED" :> "reads_received" @@
  "LOCAL_READS_SENT" :> "local_reads_sent" @@
  "REMOTE_READS_SENT" :> "remote_reads_sent" @@
  "READS_NOT_FOUND" :> "reads_not_found" @@
  "TABLE_SCANS_RECEIVED" :> "table_scans_received" @@
  "LOCAL_TABLE_SCANS_SENT" :> "local_table_scans_sent" @@
  "RANGE_SCANS_RECEIVED" :> "range_scans_received" @@
  "LOCAL_RANGE_SCANS_SENT" :> "local_range_scans_sent" @@
  "REMOTE_RANGE_SCANS_SENT" :> "remote_range_scans_sent" @@
  "SCAN_BATCHES_RETURNED" :> "scan_batches_returned" @@
  "SCAN_ROWS_RETURNED" :> "scan_rows_returned" @@
  "PRUNED_RANGE_SCANS_RECEIVED" :> "pruned_range_scans_received" @@
  "CONST_PRUNED_RANGE_SCANS_RECEIVED" :> "const_pruned_range_scans_received" @@
  "LOCAL_READS" :> "local_reads" @@
  "LOCAL_WRITES" :> "local_writes" @@
  "LQHKEY_OVERLOAD" :> "lqhkey_overload" @@
  "LQHKEY_OVERLOAD_TC" :> "lqhkey_overload_tc" @@
  "LQHKEY_OVERLOAD_READER" :> "lqhkey_overload_reader" @@
  "LQHKEY_OVERLOAD_NODE_PEER" :> "lqhkey_overload_node_peer" @@
  "LQHKEY_OVERLOAD_SUBSCRIBER" :> "lqhkey_overload_subscriber" @@
  "LQHSCAN_SLOWDOWNS" :> "lqhscan_slowdowns" @@
  "NEW_COUNTER" :> "new_counter" @@
  "New_Counter" :> "new_counter"

\* strings.ToLower: a name that holds no upper-case letter is returned as it is.
ToLower(name) == IF name \in DOMAIN LowerCase THEN LowerCase[name] ELSE name

\* ------------------------------------------------------------- registry
\* Every scraper of the package, in a fixed order.
Registry ==
  <<ScrapeNDBConnectionMap,
    ScrapeNDBInfoCPUStat,
    ScrapeNDBInfoHWInfo,
    ScrapeNDBInfoArbSumDet,
    ScrapeNDBInfoBackupID,
    ScrapeNDBInfoClusterLocks,
    ScrapeNDBInfoClusterOperations,
    ScrapeNDBInfoDictObjTree,
    ScrapeNDBInfoDictObjTypes,
    ScrapeNDBInfoDiskStat,
    ScrapeNDBInfoFiles,
    ScrapeNDBInfoForeignKeys,
    ScrapeNDBInfoCPUData,
    ScrapeNDBInfoHashMaps,
    ScrapeNDBInfoIndexStats,
    ScrapeNDBInfoLocksPerFragment,
    ScrapeNDBInfoMemoryPerFragment,
    ScrapeNDBInfoNodes,
    ScrapeNDBInfoDiskPageBuffer,
    ScrapeNDBInfoOperationsPerFragment,
    ScrapeNDBInfoResources,
    ScrapeNDBInfoTransporterDetails,
    ScrapeNDBInfoClusterTransactions,
    ScrapeNDBInfoServerLocks,
    ScrapeNDBInfoCPUInfo,
    ScrapeNDBInfoServerOperations,
    ScrapeNDBInfoServerTransactions,
    ScrapeNDBInfoTableFragments,
    ScrapeNDBInfoRestartInfo,
    ScrapeNDBInfoTableInfo,
    ScrapeNDBInfoTCTimeTrackStats,
    ScrapeNDBInfoThreads,
    ScrapeNDBInfoThreadStat,
    ScrapeNDBInfoTransporters,
    ScrapePerfNDBSyncExcludedObjects,
    ScrapeNDBInfoDiskWriteSpeedAggregate,
    ScrapeNDBInfoArbValDet,
    ScrapeNDBInfoTableReplicas,
    ScrapeNDBInfoThreadBlocks,
    ScrapeNDBInfoPGManTimeTrackStats,
    ScrapeNDBInfoDictObjInfo,
    ScrapeNDBInfoBlobs,
    ScrapeNDBInfoTableDistributionStatus,
    ScrapeNDBInfoCounters,
    ScrapeNDBInfoMemoryUsage,
    ScrapePerfNDBSyncPendingObjects,
    ScrapeNDBInfoProcesses,
    ScrapeNDBInfoLogBuffers,
    ScrapeNDBInfoLogSpaces>>

\* The counter names that ndbinfo.counters holds: two known ones and two
\* unknown ones that differ in letter case only.
CounterNames == {"ATTRINFO", "LQHSCAN_SLOWDOWNS", "NEW_COUNTER", "New_Counter"}

\* The scrapers registered for a scrape cycle and the engine versions detected.
CycleScrapers == <<ScrapeNDBConnectionMap, ScrapeNDBInfoDictObjTypes, ScrapeNDBInfoBackupID>>
DetectedVersions == {51, 80}

VARIABLES
  cand,      \* the scrapers invoked: task t runs Registry[cand[t]]
  ctx,       \* the context passed to Scrape: "live" or "cancelled"
  sink,      \* the receiver of ch: "receiving" or "stopped"
  sent,      \* the metrics received from ch, in order, by the invocation that sent them
  meta,      \* the meta-metrics the Driver sent over ch
  pc,        \* where each invocation is: query, next, scan, send, senderr, returned, panicked
  rows,      \* the *sql.Rows of each invocation: "none", "open" or "closed"
  lasterr,   \* rows.Err(): "nil", "EOF", "conn" or "ctx"
  total,     \* the number of rows of the result set
  fetched,   \* the number of rows Next has fetched
  raw,       \* the current row of the table, before the select list is evaluated
  locals,    \* the Go variables Scan assigns
  idx,       \* the next metric of the current row to send
  err,       \* the error Scan returned for the current row: "nil", "errScan" or "errCtx"
  ret,       \* what Scrape returned: "none", "nil", "errQuery", "errScan" or "errCtx"
  version,   \* the engine version the Driver detected (times ten)
  outcome,   \* the ScrapeOutcome of each candidate: "none", "success", "failed" or "cancelled"
  cycle,     \* the scrape cycle: "none" (Scrape called on its own), "running" or "done"
  status,    \* the status the cycle returned: "none", "ok" or "failed"
  queries    \* the number of queries each invocation has issued to the database handle

vars == <<cand, ctx, sink, sent, meta, pc, rows, lasterr, total, fetched, raw, locals,
          idx, err, ret, version, outcome, cycle, status, queries>>

Tasks == DOMAIN cand
ScraperOf(t) == Registry[cand[t]]
IndexOf(s) == CHOOSE i \in 1..Len(Registry) : Registry[i] = s
Min(S) == CHOOSE x \in S : \A y \in S : x <= y

\* ------------------------------------------------------- the query result
\* The well-formed row n of the scraper's table.
BaseRow(s, n) == [i \in 1..Len(s.columns) |-> Cell(n, s.columns[i].name)]

OkRows(s, n) ==
  IF s.dynamic
    THEN LET c == CHOOSE i \in 1..Len(s.columns) : s.columns[i].name = "counter_name"
         IN {[BaseRow(s, n) EXCEPT ![c] = [k |-> "str", row |-> n, s |-> name]] : name \in CounterNames}
    ELSE {BaseRow(s, n)}

\* Row n with one column holding NULL or text that is no number.
FaultRows(s, n) ==
  {[b EXCEPT ![j] = Null(n, s.columns[j].name)] :
      b \in OkRows(s, n), j \in {i \in 1..Len(s.columns) : s.columns[i].nullable}}
  \cup {[b EXCEPT ![j] = Text(n, s.columns[j].name)] : b \in OkRows(s, n), j \in 1..Len(s.columns)}

TableRows(s, n) == OkRows(s, n) \cup FaultRows(s, n)

\* When several invocations run at a time the fault, if any, is a NULL in the
\* first column.
CycleRows(s, n) == OkRows(s, n) \cup {r \in FaultRows(s, n) : r[1].k = "null"}

\* What the select list of the query makes of a row: IFNULL(x, d) and
\* COALESCE(x, d) replace NULL by d, every other column passes through.
SelectList(s, r) ==
  [i \in 1..Len(s.columns) |->
     IF r[i].k = "null" /\ s.columns[i].dflt # <<>> THEN s.columns[i].dflt[1] ELSE r[i]]

\* ------------------------------------------------------------ rows.Scan
ZeroValue(ty) == IF ty = "string" THEN StrVal("") ELSE NumVal("0")

InitLocals(s) ==
  [d \in {s.dests[i] : i \in 1..Len(s.dests)} |->
     ZeroValue(s.types[CHOOSE i \in 1..Len(s.dests) : s.dests[i] = d])]

\* convertAssign: NULL converts to neither string nor uint64, text converts
\* to string only.
Converts(ty, v) == v.k # "null" /\ (ty = "uint64" => v.k # "text")

\* Scan assigns the destinations in order and stops at the first column that
\* does not convert: the destinations before it hold the new row, the others
\* keep what they held.
Scan(s, loc, row) ==
  IF Len(s.dests) # Len(row)
    THEN [ok |-> FALSE, locals |-> loc]
    ELSE LET bad == {i \in 1..Len(row) : ~Converts(s.types[i], row[i])}
             f == IF bad = {} THEN 0 ELSE Min(bad)
         IN [ok |-> f = 0,
             locals |-> [d \in DOMAIN loc |->
                           LET i == CHOOSE j \in 1..Len(s.dests) : s.dests[j] = d
                           IN IF f = 0 \/ i < f THEN row[i] ELSE loc[d]]]

\* ------------------------------------------------------------- metrics
Eval(e, loc) ==
  CASE e.k = "var" -> loc[e.x]
    [] e.k = "lit" -> StrVal(e.x)
    [] e.k = "const" -> NumVal(e.x)

Build(tpl, loc) ==
  [desc |-> tpl.desc, vtype |-> tpl.vtype, value |-> Eval(tpl.value, loc),
   labelValues |-> [i \in 1..Len(tpl.labels) |-> Eval(tpl.labels[i], loc)]]

\* A counters scraper that makes a descriptor on the spot for every name.
CountersMetricsUntyped(loc) ==
  LET name == loc["counterName"].s
  IN <<[desc |-> [fq |-> <<"namespace", "informationSchema", <<"counter_", ToLower(name)>>>>,
                  help |-> <<"Unsupported metric from column ", name>>,
                  labels |-> <<"node_id">>],
        vtype |-> "UntypedValue",
        value |-> loc["val"], labelValues |-> <<loc["nodeID"]>>]>>
\* The loop body of the counters scraper: a known counter name uses the
\* descriptor and type of the table, any other name a descriptor made on the spot.
CountersMetrics(loc) ==
  LET name == loc["counterName"].s
  IN IF name \in DOMAIN ndbinfoCountersTypes
       THEN <<[desc |-> ndbinfoCountersTypes[name].desc,
               vtype |-> ndbinfoCountersTypes[name].vtype,
               value |-> loc["val"], labelValues |-> <<loc["nodeID"]>>]>>
       ELSE <<[desc |-> [fq |-> <<"namespace", "informationSchema", <<"counter_", ToLower(name)>>>>,
                         help |-> <<"Unsupported metric from column ", name>>,
                         labels |-> <<"node_id">>],
               vtype |-> "UntypedValue",
               value |-> loc["val"], labelValues |-> <<loc["nodeID"]>>]>>

\* A loop body that sends the first of its metrics only.
RowMetricsFirst(s, loc) ==
  IF s.dynamic THEN CountersMetrics(loc)
  ELSE [i \in 1..(IF Len(s.rowSends) > 1 THEN 1 ELSE Len(s.rowSends)) |-> Build(s.rowSends[i], loc)]
\* The metrics the loop body sends for a decoded row, and the ones the
\* error branch of Scan sends.
RowMetrics(s, loc) ==
  IF s.dynamic THEN CountersMetrics(loc)
  ELSE [i \in 1..Len(s.rowSends) |-> Build(s.rowSends[i], loc)]

ErrMetrics(s, loc) == [i \in 1..Len(s.errSends) |-> Build(s.errSends[i], loc)]

\* prometheus.MustNewConstMetric panics when the number of label values is
\* not the number of label names of the descriptor.
Panics(m) == Len(m.labelValues) # Len(m.desc.labels)

\* ------------------------------------------------------ Scrape, by step
\* The query error swallowed instead of returned.
QueryErrSwallowed(e) == "nil"
\* `if err != nil { return err }` after QueryContext.
QueryErrReturn(e) == e
\* The chain of an error value, outermost first (errors.Unwrap): the errors
\* database/sql hands to Scrape wrap nothing, and `return err` hands them on
\* as they are.
ErrorChain(e) == <<e>>
\* A Scrape that runs the query again when it failed.
QueryErrRetry == "query"
\* `if err != nil { return err }` after QueryContext: Scrape is over.
QueryErrNext == "returned"
\* `return err` in the error branch of Scan.
ScanErrReturn(e) == e
\* An empty or exhausted result set reported as an error.
LoopExitErrNoRows == "errNoRows"
\* `return nil` after the loop.
LoopExitReturn == "nil"
\* Scrape without the deferred Close.
NoDeferredClose(r) == r
\* `defer rows.Close()`, run when Scrape returns or panics.
DeferredClose(r) == IF r = "open" THEN "closed" ELSE r

\* A channel that keeps the latest metric only.
DeliverLatest(q, x) == <<x>>
\* `ch <- metric`: the receiver has the metrics in the order they were sent.
Deliver(q, x) == Append(q, x)
\* A result set that hands out one row more than it holds.
HasNextRowAlways(f, n) == f <= n
\* rows.Next() has a row as long as rows of the result set are left.
HasNextRow(f, n) == f < n

\* The Scan destinations declared as variables of the package: the invocations
\* of a scraper write the same ones.
StoreLocalsShared(t, l) == [u \in DOMAIN locals |-> IF cand[u] = cand[t] THEN l ELSE locals[u]]
\* The Scan destinations are declared in the `var` block inside Scrape: each
\* invocation writes its own.
StoreLocals(t, l) == [locals EXCEPT ![t] = l]

Return(t, e) ==
  /\ pc' = [pc EXCEPT ![t] = "returned"]
  /\ ret' = [ret EXCEPT ![t] = e]

\* Scrape runs on its own: outside a cycle, and no other invocation with it.
Alone == cycle = "none" /\ Len(cand) = 1
RowBound == IF Alone THEN MaxRows ELSE MaxCycleRows
ResultRows(s, n) == IF Alone THEN TableRows(s, n) ELSE CycleRows(s, n)

\* db.QueryContext(ctx, query): fails when the context is cancelled or the
\* database fails the query, and else returns the rows.
QueryContext(t) ==
  /\ pc[t] = "query"
  /\ queries[t] < MaxQueries
  /\ queries' = [queries EXCEPT ![t] = @ + 1]
  /\ \/ /\ ctx = "cancelled"
        /\ pc' = [pc EXCEPT ![t] = QueryErrNext]
        /\ ret' = [ret EXCEPT ![t] = QueryErrReturn("errCtx")]
        /\ UNCHANGED <<rows, total>>
     \/ /\ ctx = "live"
        /\ pc' = [pc EXCEPT ![t] = QueryErrNext]
        /\ ret' = [ret EXCEPT ![t] = QueryErrReturn("errQuery")]
        /\ UNCHANGED <<rows, total>>
     \/ /\ ctx = "live"
        /\ \E n \in 0..RowBound : total' = [total EXCEPT ![t] = n]
        /\ rows' = [rows EXCEPT ![t] = "open"]
        /\ pc' = [pc EXCEPT ![t] = "next"]
        /\ UNCHANGED ret
  /\ UNCHANGED <<cand, ctx, sink, sent, meta, lasterr, fetched, raw, locals, idx, err,
                 version, outcome, cycle, status>>

\* The loop condition rows.Next(): true with the next row, or false at the
\* end of the result set, on a lost connection, on a cancelled context and on
\* closed rows.  Next closes the rows when it returns false and Scrape leaves
\* the loop and returns without reading rows.Err().
Next(t) ==
  /\ pc[t] = "next"
  /\ \/ /\ rows[t] = "open" /\ HasNextRow(fetched[t], total[t])
        /\ \E r \in ResultRows(ScraperOf(t), fetched[t] + 1) : raw' = [raw EXCEPT ![t] = r]
        /\ fetched' = [fetched EXCEPT ![t] = @ + 1]
        /\ pc' = [pc EXCEPT ![t] = "scan"]
        /\ UNCHANGED <<rows, lasterr, ret>>
     \/ /\ rows[t] = "open"
        /\ \/ fetched[t] = total[t] /\ lasterr' = [lasterr EXCEPT ![t] = "EOF"]
           \/ fetched[t] < total[t] /\ lasterr' = [lasterr EXCEPT ![t] = "conn"]
           \/ fetched[t] < total[t] /\ ctx = "cancelled" /\ lasterr' = [lasterr EXCEPT ![t] = "ctx"]
        /\ rows' = [rows EXCEPT ![t] = "closed"]
        /\ Return(t, LoopExitReturn)
        /\ UNCHANGED <<fetched, raw>>
     \/ /\ rows[t] = "closed"
        /\ Return(t, LoopExitReturn)
        /\ UNCHANGED <<rows, lasterr, fetched, raw>>
  /\ UNCHANGED <<queries, cand, ctx, sink, sent, meta, total, locals, idx, err, version, outcome, cycle, status>>

\* database/sql closes the rows of a query whose context is cancelled.
AwaitDone(t) ==
  /\ rows[t] = "open" /\ ctx = "cancelled"
  /\ rows' = [rows EXCEPT ![t] = "closed"]
  /\ lasterr' = [lasterr EXCEPT ![t] = "ctx"]
  /\ UNCHANGED <<queries, cand, ctx, sink, sent, meta, pc, total, fetched, raw, locals, idx, err, ret,
                 version, outcome, cycle, status>>

\* rows.Scan(&...) and the branch on its error.
ScanRow(t) ==
  /\ pc[t] = "scan"
  /\ LET s == ScraperOf(t)
         res == IF rows[t] = "closed"
                  THEN [ok |-> FALSE, locals |-> locals[t]]
                  ELSE Scan(s, locals[t], SelectList(s, raw[t]))
         e == IF res.ok THEN "nil" ELSE IF rows[t] = "closed" THEN "errCtx" ELSE "errScan"
     IN /\ locals' = StoreLocals(t, res.locals)
        /\ err' = [err EXCEPT ![t] = e]
        /\ IF res.ok
             THEN /\ IF Len(RowMetrics(s, res.locals)) = 0
                       THEN pc' = [pc EXCEPT ![t] = "next"]
                       ELSE pc' = [pc EXCEPT ![t] = "send"]
                  /\ idx' = [idx EXCEPT ![t] = 1]
                  /\ UNCHANGED <<rows, ret>>
             ELSE IF Len(s.errSends) = 0
                    THEN /\ Return(t, ScanErrReturn(e))
                         /\ rows' = [rows EXCEPT ![t] = DeferredClose(@)]
                         /\ UNCHANGED idx
                    ELSE /\ pc' = [pc EXCEPT ![t] = "senderr"]
                         /\ idx' = [idx EXCEPT ![t] = 1]
                         /\ UNCHANGED <<rows, ret>>
  /\ UNCHANGED <<queries, cand, ctx, sink, sent, meta, lasterr, total, fetched, raw, version, outcome, cycle, status>>

\* ch <- prometheus.MustNewConstMetric(...): the metric is built, which may
\* panic, and the send blocks until the receiver takes the metric.
Send(t) ==
  /\ pc[t] \in {"send", "senderr"}
  /\ LET s == ScraperOf(t)
         ms == IF pc[t] = "send" THEN RowMetrics(s, locals[t]) ELSE ErrMetrics(s, locals[t])
         m == ms[idx[t]]
     IN IF Panics(m)
          THEN /\ pc' = [pc EXCEPT ![t] = "panicked"]
               /\ rows' = [rows EXCEPT ![t] = DeferredClose(@)]
               /\ UNCHANGED <<sent, idx, ret>>
          ELSE /\ sink = "receiving"
               /\ sent' = [sent EXCEPT ![t] = Deliver(@, [row |-> fetched[t], m |-> m])]
               /\ IF idx[t] < Len(ms)
                    THEN /\ idx' = [idx EXCEPT ![t] = @ + 1]
                         /\ UNCHANGED <<pc, rows, ret>>
                    ELSE IF pc[t] = "send"
                           THEN /\ pc' = [pc EXCEPT ![t] = "next"]
                                /\ UNCHANGED <<idx, rows, ret>>
                           ELSE /\ Return(t, ScanErrReturn(err[t]))
                                /\ rows' = [rows EXCEPT ![t] = DeferredClose(@)]
                                /\ UNCHANGED idx
  /\ UNCHANGED <<queries, cand, ctx, sink, meta, lasterr, total, fetched, raw, locals, err,
                 version, outcome, cycle, status>>

Scrape(t) == QueryContext(t) \/ Next(t) \/ ScanRow(t) \/ Send(t)

\* ------------------------------------------------------- the environment
\* The caller cancels the context, or its deadline expires.
Cancel ==
  /\ ctx = "live"
  /\ ctx' = "cancelled"
  /\ UNCHANGED <<queries, cand, sink, sent, meta, pc, rows, lasterr, total, fetched, raw, locals, idx,
                 err, ret, version, outcome, cycle, status>>

\* The receiver of ch stops receiving once the request is cancelled.
SinkStop ==
  /\ ctx = "cancelled" /\ sink = "receiving"
  /\ sink' = "stopped"
  /\ UNCHANGED <<queries, cand, ctx, sent, meta, pc, rows, lasterr, total, fetched, raw, locals, idx,
                 err, ret, version, outcome, cycle, status>>

\* ------------------------------------------------- one Scrape on its own
TaskInit(c) ==
  /\ cand = c
  /\ ctx = "live" /\ sink = "receiving" /\ meta = <<>>
  /\ sent = [t \in DOMAIN c |-> <<>>]
  /\ pc = [t \in DOMAIN c |-> "query"]
  /\ rows = [t \in DOMAIN c |-> "none"]
  /\ lasterr = [t \in DOMAIN c |-> "nil"]
  /\ total = [t \in DOMAIN c |-> 0]
  /\ fetched = [t \in DOMAIN c |-> 0]
  /\ raw = [t \in DOMAIN c |-> <<>>]
  /\ locals = [t \in DOMAIN c |-> InitLocals(Registry[c[t]])]
  /\ idx = [t \in DOMAIN c |-> 1]
  /\ err = [t \in DOMAIN c |-> "nil"]
  /\ ret = [t \in DOMAIN c |-> "none"]
  /\ outcome = [t \in DOMAIN c |-> "none"]
  /\ queries = [t \in DOMAIN c |-> 0]

Init ==
  /\ \E i \in 1..Len(Registry) : TaskInit(<<i>>)
  /\ version = 0 /\ cycle = "none" /\ status = "none"

Next1 == Scrape(1) \/ AwaitDone(1) \/ Cancel \/ SinkStop

Spec == Init /\ [][Next1]_vars

\* The goroutine that runs Scrape runs whenever it can, and so does the one
\* that closes the rows of a cancelled query; nothing makes the caller cancel
\* or the receiver go on receiving.
FairInit ==
  /\ TaskInit(<<IndexOf(ScrapeNDBInfoOperationsPerFragment)>>)
  /\ version = 0 /\ cycle = "none" /\ status = "none"

FairSpec == FairInit /\ [][Next1]_vars /\ WF_vars(Scrape(1)) /\ WF_vars(AwaitDone(1))

\* One Scrape whose receiver takes every metric it is sent: the caller may
\* cancel, the receiver never stops.
PassInit ==
  /\ TaskInit(<<IndexOf(ScrapeNDBInfoTableInfo)>>)
  /\ version = 0 /\ cycle = "none" /\ status = "none"

PassNext == Scrape(1) \/ AwaitDone(1) \/ Cancel

PassSpec == PassInit /\ [][PassNext]_vars /\ WF_vars(Scrape(1)) /\ WF_vars(AwaitDone(1))

\* ------------------------------------------- two invocations at a time
\* Two invocations of Scrape, of the same scraper or of two scrapers, run
\* concurrently on the same handle, context and channel.
ConcScrapers == <<ScrapeNDBInfoCounters, ScrapeNDBInfoDictObjTypes>>

ConcInit ==
  /\ \E i, j \in {IndexOf(ConcScrapers[k]) : k \in 1..Len(ConcScrapers)} : TaskInit(<<i, j>>)
  /\ version = 0 /\ cycle = "none" /\ status = "none"

ConcNext ==
  \/ \E t \in Tasks : Scrape(t) \/ AwaitDone(t)
  \/ Cancel
  \/ SinkStop

ConcSpec == ConcInit /\ [][ConcNext]_vars

\* ------------------------------------------------------ the scrape cycle
\* A Driver that takes every registered scraper as a candidate.
CandidatesAll(reg, v) == reg
\* The candidates of a cycle: the registered scrapers whose minimum version
\* is at most the detected engine version.
Candidates(reg, v) == SelectSeq(reg, LAMBDA s : s.version <= v)

\* The outcome the Driver records for what Scrape returned.
Outcome(e) ==
  CASE e = "nil" -> "success"
    [] e = "errCtx" -> "cancelled"
    [] OTHER -> "failed"

\* A Driver that stops waiting at the first failed candidate.
AllCompleteOrOneFailed ==
  (\A t \in Tasks : outcome[t] # "none") \/ (\E t \in Tasks : outcome[t] = "failed")
\* The Driver goes on to the meta-metrics once every candidate has an outcome.
AllComplete == \A t \in Tasks : outcome[t] # "none"

\* A cycle that fails as soon as one candidate failed.
CycleStatusAnyFailed ==
  IF \E t \in Tasks : outcome[t] # "success" THEN "failed" ELSE "ok"
\* The status of the cycle: it fails only when the Driver got no database
\* handle (and so detected no version) or every candidate failed.
CycleStatus ==
  IF version = 0 \/ \A t \in Tasks : outcome[t] # "success" THEN "failed" ELSE "ok"

\* A Driver that emits scraper_success only.
MetaMetricsSuccessOnly(t) ==
  <<[desc |-> [fq |-> <<"namespace", "exporter", <<"scraper_success">>>>,
                      help |-> <<"Whether the scraper succeeded.">>,
                      labels |-> <<"scraper">>],
            vtype |-> "GaugeValue",
            value |-> NumVal(IF outcome[t] = "success" THEN "1" ELSE "0"),
     labelValues |-> <<ScraperOf(t).name>>]>>
\* scraper_success and scraper_duration_seconds of candidate t.
MetaMetrics(t) ==
  <<[desc |-> [fq |-> <<"namespace", "exporter", <<"scraper_success">>>>,
                      help |-> <<"Whether the scraper succeeded.">>,
                      labels |-> <<"scraper">>],
            vtype |-> "GaugeValue",
            value |-> NumVal(IF outcome[t] = "success" THEN "1" ELSE "0"),
     labelValues |-> <<ScraperOf(t).name>>],
    [desc |-> [fq |-> <<"namespace", "exporter", <<"scraper_duration_seconds">>>>,
                      help |-> <<"How long the scraper took.">>,
                      labels |-> <<"scraper">>],
            vtype |-> "GaugeValue",
            value |-> [k |-> "duration", row |-> 0, s |-> ""],
     labelValues |-> <<ScraperOf(t).name>>]>>

RECURSIVE AllMeta(_)
AllMeta(n) == IF n = 0 THEN <<>> ELSE AllMeta(n - 1) \o MetaMetrics(n)

\* Scrape has returned: the Driver records the outcome of the candidate.
DriverRecord(t) ==
  /\ cycle = "running" /\ pc[t] = "returned" /\ outcome[t] = "none"
  /\ outcome' = [outcome EXCEPT ![t] = Outcome(ret[t])]
  /\ UNCHANGED <<queries, cand, ctx, sink, sent, meta, pc, rows, lasterr, total, fetched, raw, locals,
                 idx, err, ret, version, cycle, status>>

\* After all candidates complete the Driver emits the meta-metrics of every
\* candidate and returns the status of the cycle.
DriverFinish ==
  /\ cycle = "running" /\ AllComplete
  /\ sink = "receiving"
  /\ meta' = AllMeta(Len(cand))
  /\ cycle' = "done"
  /\ status' = CycleStatus
  /\ UNCHANGED <<queries, cand, ctx, sink, sent, pc, rows, lasterr, total, fetched, raw, locals, idx,
                 err, ret, version, outcome>>

\* Without a database handle the Driver detects no version (0) and has no
\* candidate to run.
CycleInit ==
  /\ version \in DetectedVersions \cup {0}
  /\ LET cs == Candidates(CycleScrapers, version)
     IN TaskInit([i \in DOMAIN cs |-> IndexOf(cs[i])])
  /\ cycle = "running" /\ status = "none"

CycleNext ==
  \/ \E t \in Tasks : Scrape(t) \/ AwaitDone(t) \/ DriverRecord(t)
  \/ DriverFinish
  \/ Cancel /\ cycle = "running"
  \/ SinkStop

CycleSpec == CycleInit /\ [][CycleNext]_vars

\* A cycle over scrapers of every minimum version the package declares (5.1,
\* 8.0 and 8.4), at the detected versions 8.0, 8.4 and 9.0.
GateScrapers == <<ScrapeNDBConnectionMap, ScrapeNDBInfoBackupID, ScrapeNDBInfoTransporterDetails>>
GateVersions == {80, 84, 90}

GateInit ==
  /\ version \in GateVersions
  /\ LET cs == Candidates(GateScrapers, version)
     IN TaskInit([i \in DOMAIN cs |-> IndexOf(cs[i])])
  /\ cycle = "running" /\ status = "none"

\* The caller of this cycle lets it run to its end.
GateNext ==
  \/ \E t \in Tasks : Scrape(t) \/ DriverRecord(t)
  \/ DriverFinish

GateSpec == GateInit /\ [][GateNext]_vars

\* --------------------------------------------------------------- claims
Sent(t) == {sent[t][i] : i \in 1..Len(sent[t])}

\* C1: if Scan of row k fails, no metric at all is sent for row k and Scrape
\* returns a non-nil error.
C1_NoMetricForFailedRow ==
  \A t \in Tasks : err[t] # "nil" =>
     /\ \A x \in Sent(t) : x.row # fetched[t]
     /\ pc[t] = "returned" => ret[t] # "nil"

\* C2: if the context is cancelled while Scrape iterates, so that the rows
\* stop before the last row, Scrape returns the cancellation error, never nil.
C2_CancelledIterationReturnsError ==
  \A t \in Tasks :
     pc[t] = "returned" /\ lasterr[t] = "ctx" /\ fetched[t] < total[t] => ret[t] = "errCtx"

\* C3: whatever candidates fail, the cycle ends only after every candidate
\* has run to completion and has an outcome recorded.
C3_CycleIsolation ==
  cycle = "done" => \A t \in Tasks : pc[t] = "returned" /\ outcome[t] = Outcome(ret[t])

\* A cycle that ended with a failed and a successful candidate.
C3_Witness ==
  cycle = "done" /\ \E t, u \in Tasks : outcome[t] = "failed" /\ outcome[u] = "success"

\* C4: once Scrape has returned, the rows of a query that succeeded are
\* closed; no result set is left open.
C4_RowsClosedOnReturn ==
  \A t \in Tasks : pc[t] = "returned" => rows[t] # "open"

\* Scrape returned the decode error of a row of an open result set.
C4_Witness ==
  \E t \in Tasks : pc[t] = "returned" /\ ret[t] = "errScan" /\ rows[t] = "closed"

\* C5: if the query fails, Scrape returns the failure, sends no metric and
\* fetches no row.
C5_QueryFailure ==
  \A t \in Tasks : pc[t] = "returned" /\ rows[t] = "none" =>
     ret[t] \in {"errQuery", "errCtx"} /\ sent[t] = <<>> /\ fetched[t] = 0

\* Scrape returned after a failed query.
C5_Witness == \E t \in Tasks : pc[t] = "returned" /\ ret[t] = "errQuery"

\* C6: if the query succeeds and returns zero rows, Scrape sends no metric
\* and returns nil.
C6_ZeroRows ==
  \A t \in Tasks : pc[t] = "returned" /\ rows[t] # "none" /\ total[t] = 0 =>
     sent[t] = <<>> /\ ret[t] = "nil"

\* Scrape returned from an empty result set read to its end.
C6_Witness ==
  \E t \in Tasks : pc[t] = "returned" /\ total[t] = 0 /\ lasterr[t] = "EOF"

\* C7: a NULL in a text column is the empty string and a NULL in a numeric
\* column is 0 by the time the row is used for labels and values.
C7_NullCoalescing ==
  \A t \in Tasks : pc[t] = "send" =>
     LET s == ScraperOf(t)
     IN \A i \in 1..Len(s.columns) :
           raw[t][i].k = "null" => locals[t][s.dests[i]] = ZeroValue(s.types[i])

\* C8: no construction of a metric panics on its label count, and every
\* metric sent has as many label values as its descriptor has label names.
C8_LabelArity ==
  \A t \in Tasks :
     /\ pc[t] # "panicked"
     /\ \A x \in Sent(t) : Len(x.m.labelValues) = Len(x.m.desc.labels)

\* A metric with labels has been sent.
C8_Witness ==
  \E t \in Tasks : \E x \in Sent(t) : Len(x.m.labelValues) > 0

C10_CancelledOutcome ==
  cycle = "done" =>
     \A t \in Tasks :
        /\ outcome[t] # "none"
        /\ (ret[t] = "errCtx" \/ (lasterr[t] = "ctx" /\ fetched[t] < total[t]))
              => outcome[t] = "cancelled"

\* The names of the scrapers of a sequence, and whether a scraper has been
\* invoked in this cycle and whether a meta-metric names it.
Names(reg) == {reg[i].name : i \in 1..Len(reg)}
Invoked(s) == \E t \in Tasks : ScraperOf(t).name = s.name
Reported(s) == \E i \in 1..Len(meta) : meta[i].labelValues = <<s.name>>

\* Of all scrapers of the package, only transporter_details is no candidate
\* at 8.0, and every one is a candidate at 8.4.
RegistryGate ==
  /\ Names(Candidates(Registry, 80)) = Names(Registry) \ {ScrapeNDBInfoTransporterDetails.name}
  /\ ScrapeNDBInfoTransporterDetails.name \in Names(Registry)
  /\ Names(Candidates(Registry, 84)) = Names(Registry)

\* C11: a scraper is a candidate of the cycle exactly when its minimum version
\* is at most the detected version: transporter_details (8.4) is out at 8.0
\* and in at 8.4 and above, the scrapers of 5.1 and 8.0 are in at 8.0, and a
\* scraper left out is not invoked, has no meta-metric and fails no cycle.
C11_VersionGating ==
  /\ RegistryGate
  /\ \A k \in 1..Len(GateScrapers) :
        LET s == GateScrapers[k]
        IN /\ Invoked(s) <=> s.version <= version
           /\ s.version > version => ~Reported(s)
  /\ version = 80 => /\ ~Invoked(ScrapeNDBInfoTransporterDetails)
                     /\ Invoked(ScrapeNDBConnectionMap)
                     /\ Invoked(ScrapeNDBInfoBackupID)
  /\ version >= 84 => Invoked(ScrapeNDBInfoTransporterDetails)
  /\ cycle = "done" /\ (\A t \in Tasks : ret[t] = "nil") => status = "ok"

\* A cycle at 8.0 that ended without transporter_details.
C11_Witness ==
  cycle = "done" /\ version = 80 /\ status = "ok" /\ Len(meta) = 4

\* The meta-metrics of a family that carry the name of a scraper.
MetaOf(fam, name) ==
  {i \in 1..Len(meta) : meta[i].desc.fq[3] = <<fam>> /\ meta[i].labelValues = <<name>>}

\* C12: when the cycle ends, every candidate has exactly one scraper_success
\* and one scraper_duration_seconds with its name, no other scraper has any,
\* and scraper_success is 1 exactly when its Scrape returned nil.
C12_MetaMetrics ==
  cycle = "done" =>
     /\ \A t \in Tasks :
           LET name == ScraperOf(t).name
           IN /\ Cardinality(MetaOf("scraper_success", name)) = 1
              /\ Cardinality(MetaOf("scraper_duration_seconds", name)) = 1
              /\ \A i \in MetaOf("scraper_success", name) :
                    /\ meta[i].value \in {NumVal("1"), NumVal("0")}
                    /\ meta[i].value = NumVal("1") <=> ret[t] = "nil"
     /\ \A k \in 1..Len(CycleScrapers) :
           ~Invoked(CycleScrapers[k]) => ~Reported(CycleScrapers[k])
     /\ Len(meta) = 2 * Cardinality(Tasks)

\* A cycle at 5.1 ended: its one candidate failed and two scrapers were left out.
C12_Witness ==
  /\ cycle = "done" /\ version = 51
  /\ \E t \in Tasks : ret[t] = "errScan"
  /\ ~Invoked(ScrapeNDBInfoBackupID)

\* C13: a cycle in which some but not all candidates failed returns "ok", and
\* a cycle returns "failed" only when no candidate succeeded or the Driver
\* got no database handle.
C13_PartialFailure ==
  cycle = "done" =>
     /\ version # 0 /\ (\E t \in Tasks : outcome[t] = "success") => status = "ok"
     /\ status = "failed" => version = 0 \/ \A t \in Tasks : outcome[t] # "success"
     /\ status \in {"ok", "failed"}

\* A cycle returned "ok" with two candidates failed and one successful.
C13_Witness ==
  /\ cycle = "done" /\ status = "ok"
  /\ \E t, u, w \in Tasks :
        t # u /\ outcome[t] = "failed" /\ outcome[u] = "failed" /\ outcome[w] = "success"

\* What the Scan destinations hold before row n is scanned, in an invocation
\* that runs alone: the zero values, or row n - 1 decoded.
DecodedBefore(s, n) ==
  IF n = 1
    THEN {InitLocals(s)}
    ELSE {Scan(s, InitLocals(s), SelectList(s, r)).locals :
            r \in {q \in ResultRows(s, n - 1) : Scan(s, InitLocals(s), SelectList(s, q)).ok}}

\* What Scan of row n makes of row r in an invocation that runs alone, the
\* rows being open or closed by the cancellation.
AloneScan(s, n, r) ==
  {Scan(s, l, SelectList(s, r)) : l \in DecodedBefore(s, n)}
  \cup {[ok |-> FALSE, locals |-> l] : l \in DecodedBefore(s, n)}

\* The metrics an invocation that runs alone sends for row n.
AloneMetrics(s, n) ==
  UNION {LET ms == IF res.ok THEN RowMetrics(s, res.locals) ELSE ErrMetrics(s, res.locals)
         IN {ms[i] : i \in 1..Len(ms)} :
           res \in UNION {AloneScan(s, n, r) : r \in ResultRows(s, n)}}

\* C14: with two invocations running concurrently, each one holds, sends and
\* returns what it would alone on the rows of its own query.
C14_NoSharedState ==
  \A t \in Tasks :
     LET s == ScraperOf(t)
     IN /\ pc[t] \in {"send", "senderr"} =>
              \E res \in AloneScan(s, fetched[t], raw[t]) :
                 res.locals = locals[t] /\ res.ok = (pc[t] = "send")
        /\ \A x \in Sent(t) : x.m \in AloneMetrics(s, x.row)
        /\ pc[t] = "returned" /\ ret[t] = "errScan" =>
              \E res \in AloneScan(s, fetched[t], raw[t]) : ~res.ok
        /\ pc[t] = "returned" /\ ret[t] = "nil" => err[t] = "nil" /\ rows[t] = "closed"

\* Two invocations of one scraper, one about to send a decoded row while the
\* other has had a row that failed to decode.
C14_Witness ==
  \E t, u \in Tasks :
     t # u /\ cand[t] = cand[u] /\ pc[t] = "send" /\ err[u] = "errScan"

\* No two scrapers of the package have the same name.
NamesDistinct ==
  \A i, j \in 1..Len(Registry) : i # j => Registry[i].name # Registry[j].name

\* C15: the names of the scrapers are pairwise distinct, and the name of the
\* scraper an invocation runs, the same on every call, is the name of no other.
C15_NamesUnique ==
  /\ NamesDistinct
  /\ \A t \in Tasks : \A i \in 1..Len(Registry) :
        Registry[i].name = ScraperOf(t).name => i = cand[t]

\* The scraper named ndbinfo.backup_id has run.
C15_Witness ==
  \E t \in Tasks : pc[t] = "returned" /\ ScraperOf(t).name = <<"NDBInfo", ".backup_id">>

\* C16: an invocation issues one query, no more, by the time it is past the
\* query, and after a row failed to decode it only sends what the error
\* branch sends and returns: it fetches no row and issues no query again.
C16_OneQuery ==
  \A t \in Tasks :
     /\ queries[t] <= 1
     /\ pc[t] # "query" => queries[t] = 1
     /\ err[t] # "nil" => pc[t] \in {"senderr", "returned"}

\* Scrape returned a decode error after its one query.
C16_Witness ==
  \E t \in Tasks : pc[t] = "returned" /\ ret[t] = "errScan" /\ queries[t] = 1

\* C17: the error Scrape returns for a failed query or a failed decode is
\* the underlying error wrapped with the name of the scraper.
C17_ErrorWrapped ==
  \A t \in Tasks :
     pc[t] = "returned" /\ ret[t] \in {"errQuery", "errScan"} =>
        LET chain == ErrorChain(ret[t])
        IN /\ Len(chain) = 2
           /\ chain[1] = ScraperOf(t).name
           /\ chain[2] \in {"errQuery", "errScan"}

\* The scrapers whose metric is "1 if query is successful, 0 if error encountered".
SuccessFlagScrapers ==
  {ScrapeNDBInfoThreadBlocks.name, ScrapeNDBInfoDictObjTypes.name, ScrapeNDBInfoThreads.name,
   ScrapePerfNDBSyncExcludedObjects.name, ScrapePerfNDBSyncPendingObjects.name}

\* C18: a scraper of these that returns nil has sent the value 1 for every
\* row, and one that returns an error has sent the value 0.
C18_SuccessFlag ==
  \A t \in Tasks :
     ScraperOf(t).name \in SuccessFlagScrapers /\ pc[t] = "returned" =>
        /\ ret[t] = "nil" =>
              /\ \A x \in Sent(t) : x.m.value = NumVal("1")
              /\ \A n \in 1..fetched[t] : \E x \in Sent(t) : x.row = n
        /\ ret[t] # "nil" => \E x \in Sent(t) : x.m.value = NumVal("0")

\* C19: Scrape returns nil only when every row of the result set has been
\* fetched and its metrics sent.
C19_NilMeansComplete ==
  \A t \in Tasks :
     pc[t] = "returned" /\ ret[t] = "nil" =>
        /\ fetched[t] = total[t]
        /\ \A n \in 1..total[t] : \E x \in Sent(t) : x.row = n

\* C20: a label named after a column of the query carries the value of that
\* column of the row.
C20_LabelsCarryTheirColumn ==
  \A t \in Tasks : \A x \in Sent(t) :
     \A i \in 1..Len(x.m.labelValues) :
        LET v == x.m.labelValues[i]
            label == x.m.desc.labels[i]
        IN v.k \in {"cell", "text"}
           /\ label \in {ScraperOf(t).columns[j].name : j \in 1..Len(ScraperOf(t).columns)}
              => v.s = label /\ v.row = x.row

\* The column each metric of table_distribution_status is named after.
TableDistributionStatusColumn ==
  "table_distribution_status_current_scan_count" :> "current_scan_count" @@
  "table_distribution_status_scan_count_wait" :> "scan_count_wait" @@
  "table_distribution_status_is_reorg_ongoing" :> "is_reorg_ongoing"

\* C21: every metric of table_distribution_status has the value of the column
\* it is named after, and once the metrics of a row are sent each of the three
\* value columns is the value of one of them.
C21_ValueOfNamedColumn ==
  \A t \in Tasks :
     ScraperOf(t).name = ScrapeNDBInfoTableDistributionStatus.name =>
        /\ \A x \in Sent(t) :
              x.m.value.k = "cell" => x.m.value.s = TableDistributionStatusColumn[x.m.desc.fq[3][1]]
        /\ pc[t] = "next" /\ err[t] = "nil" /\ fetched[t] > 0 =>
              \A c \in {"current_scan_count", "scan_count_wait", "is_reorg_ongoing"} :
                 \E x \in Sent(t) : x.row = fetched[t] /\ x.m.value.s = c

\* C22: no two metrics an invocation has sent have the same descriptor and
\* the same label values, the label values being those of a row.
C22_NoDuplicateSeries ==
  \A t \in Tasks : \A i, j \in 1..Len(sent[t]) :
     i < j /\ (\E l \in 1..Len(sent[t][i].m.labelValues) :
                  sent[t][i].m.labelValues[l].k \in {"cell", "text"}) =>
        ~(/\ sent[t][i].m.desc = sent[t][j].m.desc
          /\ sent[t][i].m.labelValues = sent[t][j].m.labelValues)

\* The number of metrics the loop body of a scraper sends for a row.
MetricsPerRow(s) == IF s.dynamic THEN 1 ELSE Len(s.rowSends)

\* The metrics an invocation has sent come in the order of the rows.
InRowOrder(t) ==
  \A i, j \in 1..Len(sent[t]) : i < j => sent[t][i].row <= sent[t][j].row

\* The number of metrics an invocation has sent for row n.
SentOfRow(t, n) == Cardinality({i \in 1..Len(sent[t]) : sent[t][i].row = n})

\* C23: when Scrape returns the decode error of row k, the receiver has all
\* metrics of the rows before k, in row order, and none of a row after k.
C23_PrefixOnDecodeError ==
  \A t \in Tasks :
     pc[t] = "returned" /\ ret[t] = "errScan" =>
        /\ \A n \in 1..(fetched[t] - 1) : SentOfRow(t, n) = MetricsPerRow(ScraperOf(t))
        /\ InRowOrder(t)
        /\ \A x \in Sent(t) : x.row <= fetched[t]

\* Scrape returned the decode error of the second row, the first one sent.
C23_Witness ==
  \E t \in Tasks :
     pc[t] = "returned" /\ ret[t] = "errScan" /\ fetched[t] = 2 /\ SentOfRow(t, 1) > 1

\* C24: from a result set of n rows read to its end, all decoded, Scrape has
\* sent n times m metrics, the m metrics of a row together; m is 1 for
\* backup_id, 14 for disk_write_speed_aggregate and 22 for operations_per_fragment.
C24_MetricsPerRow ==
  /\ MetricsPerRow(ScrapeNDBInfoBackupID) = 1
  /\ MetricsPerRow(ScrapeNDBInfoDiskWriteSpeedAggregate) = 14
  /\ MetricsPerRow(ScrapeNDBInfoOperationsPerFragment) = 22
  /\ \A t \in Tasks :
        /\ InRowOrder(t)
        /\ pc[t] = "returned" /\ ret[t] = "nil" /\ lasterr[t] = "EOF" =>
              /\ Len(sent[t]) = total[t] * MetricsPerRow(ScraperOf(t))
              /\ \A n \in 1..total[t] : SentOfRow(t, n) = MetricsPerRow(ScraperOf(t))

\* Scrape returned nil from two rows of disk_write_speed_aggregate.
C24_Witness ==
  \E t \in Tasks :
     /\ ScraperOf(t).name = ScrapeNDBInfoDiskWriteSpeedAggregate.name
     /\ pc[t] = "returned" /\ ret[t] = "nil" /\ lasterr[t] = "EOF" /\ total[t] = 2

\* The counter name of the row the counters scraper has at hand.
CounterNameOfRow(t) == SelectList(ScraperOf(t), raw[t])[2].s

\* C25: the counters scraper sends one metric for a decoded row, labeled by
\* node_id only: with the descriptor and type of the table when the counter
\* name is a key of it, and else untyped under counter_<lower-cased name>.
C25_CountersOneMetricPerRow ==
  \A t \in Tasks :
     ScraperOf(t).name = ScrapeNDBInfoCounters.name =>
        /\ \A x \in Sent(t) :
              /\ x.m.desc.labels = <<"node_id">>
              /\ Len(x.m.labelValues) = 1
              /\ x.m.labelValues[1].s = "node_id"
              /\ x.row = fetched[t] =>
                    LET name == CounterNameOfRow(t)
                    IN IF name \in DOMAIN ndbinfoCountersTypes
                         THEN /\ x.m.desc = ndbinfoCountersTypes[name].desc
                              /\ x.m.vtype = ndbinfoCountersTypes[name].vtype
                         ELSE /\ x.m.vtype = "UntypedValue"
                              /\ x.m.desc.fq[3] = <<"counter_", ToLower(name)>>
        /\ \A n \in 1..fetched[t] : SentOfRow(t, n) <= 1
        /\ pc[t] = "next" /\ err[t] = "nil" => \A n \in 1..fetched[t] : SentOfRow(t, n) = 1

\* The counters scraper has sent a metric of the table and one made on the spot.
C25_Witness ==
  \E t \in Tasks :
     /\ ScraperOf(t).name = ScrapeNDBInfoCounters.name
     /\ pc[t] = "next" /\ fetched[t] = 2
     /\ \E x, y \in Sent(t) : x.m.vtype = "CounterValue" /\ y.m.vtype = "UntypedValue"

\* C26: two metrics the counters scraper has sent under one fully-qualified
\* name have the same help text and the same label names.
C26_ConsistentDescriptors ==
  \A t \in Tasks :
     ScraperOf(t).name = ScrapeNDBInfoCounters.name =>
        \A x, y \in Sent(t) :
           x.m.desc.fq = y.m.desc.fq =>
              x.m.desc.help = y.m.desc.help /\ x.m.desc.labels = y.m.desc.labels

\* C27: every metric a scraper of ndbinfo has sent is named in the subsystem
\* of ndbinfo.
C27_NdbinfoSubsystem ==
  \A t \in Tasks :
     ScraperOf(t).name[1] = "NDBInfo" =>
        \A x \in Sent(t) : x.m.desc.fq[1] = "namespace" /\ x.m.desc.fq[2] = "NDBInfo"

\* counters_<name>_total, for the lower-cased names of the known counters.
CountersTotalName ==
  "attrinfo" :> "counters_attrinfo_total" @@
  "transactions" :> "counters_transactions_total" @@
  "commits" :> "counters_commits_total" @@
  "reads" :> "counters_reads_total" @@
  "simple_reads" :> "counters_simple_reads_total" @@
  "writes" :> "counters_writes_total" @@
  "aborts" :> "counters_aborts_total" @@
  "table_scans" :> "counters_table_scans_total" @@
  "range_scans" :> "counters_range_scans_total" @@
  "operations" :> "counters_operations_total" @@
  "reads_received" :> "counters_reads_received_total" @@
  "local_reads_sent" :> "counters_local_reads_sent_total" @@
  "remote_reads_sent" :> "counters_remote_reads_sent_total" @@
  "reads_not_found" :> "counters_reads_not_found_total" @@
  "table_scans_received" :> "counters_table_scans_received_total" @@
  "local_table_scans_sent" :> "counters_local_table_scans_sent_total" @@
  "range_scans_received" :> "counters_range_scans_received_total" @@
  "local_range_scans_sent" :> "counters_local_range_scans_sent_total" @@
  "remote_range_scans_sent" :> "counters_remote_range_scans_sent_total" @@
  "scan_batches_returned" :> "counters_scan_batches_returned_total" @@
  "scan_rows_returned" :> "counters_scan_rows_returned_total" @@
  "pruned_range_scans_received" :> "counters_pruned_range_scans_received_total" @@
  "const_pruned_range_scans_received" :> "counters_const_pruned_range_scans_received_total" @@
  "local_reads" :> "counters_local_reads_total" @@
  "local_writes" :> "counters_local_writes_total" @@
  "lqhkey_overload" :> "counters_lqhkey_overload_total" @@
  "lqhkey_overload_tc" :> "counters_lqhkey_overload_tc_total" @@
  "lqhkey_overload_reader" :> "counters_lqhkey_overload_reader_total" @@
  "lqhkey_overload_node_peer" :> "counters_lqhkey_overload_node_peer_total" @@
  "lqhkey_overload_subscriber" :> "counters_lqhkey_overload_subscriber_total" @@
  "lqhscan_slowdowns" :> "counters_lqhscan_slowdowns_total"

\* The known counters have pairwise distinct metric names.
CountersNamesDistinct ==
  \A m, n \in DOMAIN ndbinfoCountersTypes :
     m # n => ndbinfoCountersTypes[m].desc.fq # ndbinfoCountersTypes[n].desc.fq

\* C28: the metric of a known counter N is named counters_<lower-case N>_total,
\* and distinct counters have distinct metric names.
C28_CounterMetricNames ==
  /\ CountersNamesDistinct
  /\ \A t \in Tasks :
        ScraperOf(t).name = ScrapeNDBInfoCounters.name =>
           \A x \in Sent(t) :
              x.row = fetched[t] /\ CounterNameOfRow(t) \in DOMAIN ndbinfoCountersTypes =>
                 x.m.desc.fq[3] = <<CountersTotalName[ToLower(CounterNameOfRow(t))]>>

\* C29: with a receiver that takes every metric, Scrape returns, nil or an
\* error, after one pass over the rows: it fetches the rows one by one in
\* their order and never more rows than the result set holds.
C29_SinglePass ==
  /\ <>(pc[1] = "returned" /\ ret[1] # "none")
  /\ [](fetched[1] <= total[1])
  /\ [](pc[1] \in {"scan", "send"} => raw[1][1].row = fetched[1])
  /\ [][fetched'[1] \in {fetched[1], fetched[1] + 1}]_vars

\* Scrape returned nil after it fetched and sent every row of the result set.
C29_Witness ==
  /\ pc[1] = "returned" /\ ret[1] = "nil"
  /\ fetched[1] = total[1] /\ total[1] = MaxRows /\ lasterr[1] = "EOF"
  /\ Len(sent[1]) > 0
====
